---- MODULE Spec2Model ----
(***************************************************************************)
(* A model of the real-time delivery layer of NoctisApp's backend:         *)
(*   - the per-process connection registry (ConnectionManager),            *)
(*   - the Redis fixed-window rate limiter (rate_limit),                   *)
(*   - the call-signaling handlers (initiate / answer / end / status),     *)
(*   - socket admission, the pub/sub forwarder and socket teardown.        *)
(* Each subsystem has its own specification over the shared variables;     *)
(* the variables of the other subsystems stay at their initial value.      *)
(***************************************************************************)
EXTENDS Integers, FiniteSets, Sequences, TLC

VARIABLES
    \* ---- connection registry (routes/websockets.py, ConnectionManager)
    active_connections, \* user_id -> set of WebSocket; a missing key is a missing user
    connState,          \* per websocket: "new" | "open" | "closed"
    connUser,           \* per websocket: the user_id it was connected under ("" before)
    sendTask,           \* per send_to_user invocation: its position and what it did
    \* ---- rate limiter (rate_limit of routes/websockets.py and routes/calls.py)
    rlStore,            \* Redis: key -> [count, ttl] of a counter, Absent when the key does not exist
    rlLimit,            \* the budget (limit) each key's callers pass
    rlWindowCalls,      \* per key: increments made since the key last came into being
    rlTask,             \* per rate_limit invocation: its position and its outcome
    \* ---- call signaling (routes/calls.py)
    now,                \* the clock, in ticks of SecondsPerTick seconds
    calls,              \* the durable calls table: call id -> row (NoCall when there is none)
    callState,          \* Redis call:<id> -> the ephemeral snapshot (NoState when absent)
    lastResp,           \* the request handled last and the response it got
    inflight,           \* per concurrent request: where its handler is and what it read
    \* ---- socket admission, forwarder and teardown (routes/websockets.py)
    endpoint,           \* per websocket: where its websocket_endpoint coroutine is
    fwd,                \* per websocket: its _pubsub_forwarder task
    redis_client,       \* the module's _redis_client: "None" or "client"
    blacklist,          \* the Redis set jwt:blacklist
    peer_connections,   \* manager.active_connections of a second server process
    peer_redis_client,  \* _redis_client of the second server process
    inbox,              \* per websocket: the messages its subscription holds unread
    wire,               \* a published text on its way from its publisher to a forwarder
    lastEffect          \* what the last step sent and published

regVars == <<active_connections, connState, connUser, sendTask>>

rlVars == <<rlStore, rlLimit, rlWindowCalls, rlTask>>

callVars == <<now, calls, callState, lastResp, inflight>>

vars == <<active_connections, connState, connUser, sendTask,
          rlStore, rlLimit, rlWindowCalls, rlTask,
          now, calls, callState, lastResp, inflight,
          endpoint, fwd, redis_client, blacklist,
          peer_connections, peer_redis_client, inbox, wire, lastEffect>>

wsVars == <<endpoint, fwd, redis_client, blacklist,
            peer_connections, peer_redis_client, inbox, wire, lastEffect>>

None == "None"

(***************************************************************************)
(* The connection registry                                                 *)
(***************************************************************************)
Users == {"A", "B"}
Conns == {"w1", "w2", "w3"}
Senders == {"s1", "s2"}

\* dict.get(user_id, set()): the user's set, or a fresh empty one
RegGet(reg, u) == IF u \in DOMAIN reg THEN reg[u] ELSE {}

\* every (user, websocket) membership of the registry
RegPairs(reg) == {p \in (DOMAIN reg) \X Conns : p[2] \in reg[p[1]]}

\* ConnectionManager.connect, after the accept: setdefault(user_id, set()).add(ws)
connect(reg, u, ws) ==
    IF u \in DOMAIN reg
    THEN [reg EXCEPT ![u] = @ \cup {ws}]
    ELSE [x \in (DOMAIN reg) \cup {u} |-> IF x = u THEN {ws} ELSE reg[x]]

\* a disconnect that forgets to drop the user's key when its set becomes empty
disconnectKeepsEmptyKey(reg, u, ws) ==
    IF RegGet(reg, u) = {} THEN reg ELSE [reg EXCEPT ![u] = @ \ {ws}]

\* a disconnect that drops the user's whole set
disconnectDropsAll(reg, u, ws) ==
    IF RegGet(reg, u) = {} THEN reg ELSE [x \in (DOMAIN reg) \ {u} |-> reg[x]]

\* ConnectionManager.disconnect
disconnect(reg, u, ws) ==
    IF RegGet(reg, u) = {}                       \* if not conns: return
    THEN reg
    ELSE LET conns == reg[u] \ {ws}              \* if websocket in conns: remove
         IN  IF conns = {}                       \* if not conns: pop(user_id)
             THEN [x \in (DOMAIN reg) \ {u} |-> reg[x]]
             ELSE [reg EXCEPT ![u] = conns]

IdleSend ==
    [pc |-> "idle", user |-> None, todo |-> {}, snap |-> {},
     attempted |-> {}, delivered |-> {}, failed |-> {}, removed |-> {}]

\* a send loop without the try/except: the first failing send raises to the caller
SendFailureRaises(t, ws, reg, ok) ==
    IF ok
    THEN [t EXCEPT !.todo = @ \ {ws}, !.attempted = @ \cup {ws},
                   !.delivered = @ \cup {ws},
                   !.pc = IF t.todo = {ws} THEN "done" ELSE "loop"]
    ELSE [t EXCEPT !.todo = @ \ {ws}, !.attempted = @ \cup {ws},
                   !.failed = @ \cup {ws}, !.pc = "raised"]

\* One iteration of send_to_user's loop, for websocket ws, on task record t:
\* the task after `await ws.send_text(data)` returned (ok) or raised (~ok).
\* regAfter is the registry after the iteration; `removed` records what the
\* iteration took out of it.
SendIteration(t, ws, reg, ok) ==
    LET regAfter == IF ok THEN reg ELSE disconnect(reg, t.user, ws)
    IN  [t EXCEPT !.todo = @ \ {ws},
                  !.attempted = @ \cup {ws},
                  !.delivered = IF ok THEN @ \cup {ws} ELSE @,
                  !.failed = IF ok THEN @ ELSE @ \cup {ws},
                  !.removed = @ \cup (RegPairs(reg) \ RegPairs(regAfter)),
                  !.pc = IF t.todo = {ws} THEN "done" ELSE "loop"]

InitReg ==
    /\ active_connections = <<>>
    /\ connState = [w \in Conns |-> "new"]
    /\ connUser = [w \in Conns |-> ""]
    /\ sendTask = [s \in Senders |-> IdleSend]

\* websocket_endpoint admits websocket w for user u: manager.connect(u, w).
\* A websocket object is connected once, by its own endpoint invocation.
Connect(w, u) ==
    /\ connState[w] = "new"
    /\ connState' = [connState EXCEPT ![w] = "open"]
    /\ connUser' = [connUser EXCEPT ![w] = u]
    /\ active_connections' = connect(active_connections, u, w)
    /\ UNCHANGED <<sendTask, rlVars, callVars, wsVars>>

\* websocket_endpoint's teardown of w: manager.disconnect(user_id, websocket)
Disconnect(w) ==
    /\ connState[w] = "open"
    /\ connState' = [connState EXCEPT ![w] = "closed"]
    /\ active_connections' = disconnect(active_connections, connUser[w], w)
    /\ UNCHANGED <<connUser, sendTask, rlVars, callVars, wsVars>>

\* send_to_user(u, message) up to its loop: copy the user's set, return when empty
SendBegin(s, u) ==
    /\ sendTask[s].pc \in {"idle", "done"}
    /\ LET conns == RegGet(active_connections, u)
       IN  sendTask' = [sendTask EXCEPT ![s] =
               [IdleSend EXCEPT !.user = u, !.todo = conns, !.snap = conns,
                                !.pc = IF conns = {} THEN "done" ELSE "loop"]]
    /\ UNCHANGED <<active_connections, connState, connUser, rlVars, callVars, wsVars>>

\* one iteration of the loop: the send to a closed socket raises, the send to an
\* open one returns or raises (a broken peer); a raise prunes the websocket
SendStep(s) ==
    /\ sendTask[s].pc = "loop"
    /\ \E ws \in sendTask[s].todo, ok \in BOOLEAN :
        /\ ok => connState[ws] = "open"
        /\ sendTask' = [sendTask EXCEPT ![s] =
                            SendIteration(sendTask[s], ws, active_connections, ok)]
        /\ active_connections' =
              IF ok THEN active_connections
              ELSE disconnect(active_connections, sendTask[s].user, ws)
    /\ UNCHANGED <<connState, connUser, rlVars, callVars, wsVars>>

NextReg ==
    \/ \E w \in Conns, u \in Users : Connect(w, u)
    \/ \E w \in Conns : Disconnect(w)
    \/ \E s \in Senders, u \in Users : SendBegin(s, u)
    \/ \E s \in Senders : SendStep(s)

(***************************************************************************)
(* The rate limiter.  rate_limit(redis, user_id, action_key, limit,        *)
(* window_seconds) is the same code in websockets.py and calls.py but for  *)
(* the exception it raises.  Every Redis command is an await, so the other *)
(* tasks run between two commands of one call; a command may also raise    *)
(* (the store is unreachable).  Time passes in whole seconds.              *)
(***************************************************************************)
RLKeys == {"rl:A:ws:ping", "rl:B:ws:ping"}
RLTasks == {"t1", "t2"}

\* the largest limit a key is given, and the window every call passes
MaxLimit == 2
WindowSeconds == 2
\* increments are not started on a counter that has reached this value
MaxCount == 4

NoTtl == 0 - 1
\* a key that does not exist (TTL answers -2 for it)
Absent == [count |-> 0, ttl |-> -2]

IdleRL ==
    [pc |-> "idle", key |-> None, current |-> 0, nth |-> 0,
     result |-> None, retry |-> 0, fault |-> FALSE]

\* INCR key: an absent key is created at 1 without expiry, an existing one keeps its expiry
RedisIncr(store, k) ==
    IF store[k] = Absent
    THEN [store EXCEPT ![k] = [count |-> 1, ttl |-> NoTtl]]
    ELSE [store EXCEPT ![k] = [@ EXCEPT !.count = @ + 1]]

\* EXPIRE key seconds: sets the expiry of an existing key
RedisExpire(store, k, seconds) ==
    IF store[k] = Absent THEN store
    ELSE [store EXCEPT ![k] = [@ EXCEPT !.ttl = seconds]]

\* TTL key: -2 for an absent key, -1 for a key without expiry, else the seconds left
RedisTtl(store, k) == store[k].ttl

\* one second later: expiries count down, and a key whose expiry is reached is gone
RedisTick(store) ==
    [k \in DOMAIN store |->
        IF store[k] = Absent \/ store[k].ttl = NoTtl THEN store[k]
        ELSE IF store[k].ttl = 1 THEN Absent
        ELSE [store[k] EXCEPT !.ttl = @ - 1]]

\* a limiter that already blocks the call that reaches the limit
ExceedsOffByOne(current, limit) == current >= limit

\* `if current > limit`
Exceeds(current, limit) == current > limit

\* a limiter that arms the expiry on every call, so the window slides
FirstInWindowAlways(current) == TRUE

\* `if current == 1`
FirstInWindow(current) == current = 1

\* `ttl if ttl > 0 else window_seconds`
RetryAfter(ttl, window_seconds) == IF ttl > 0 THEN ttl ELSE window_seconds

\* a limiter whose store fault blocks the caller
StoreFaultRaises(t) == [t EXCEPT !.pc = "done", !.result = "error", !.fault = TRUE]

\* `except Exception: logger.warning(...)`: a store fault lets the call through
StoreFault(t) == [t EXCEPT !.pc = "done", !.result = "ok", !.fault = TRUE]

\* no counter exists and no call is in progress
QuietRL ==
    /\ rlStore = [k \in RLKeys |-> Absent]
    /\ rlWindowCalls = [k \in RLKeys |-> 0]
    /\ rlTask = [t \in RLTasks |-> IdleRL]

\* every key has its own budget, which its callers always pass
InitRL == QuietRL /\ rlLimit \in [RLKeys -> 1..MaxLimit]

\* the limiter as the other subsystems' specifications leave it
IdleRLInit == QuietRL /\ rlLimit = [k \in RLKeys |-> MaxLimit]

\* a caller enters rate_limit for key k
RLCall(t, k) ==
    /\ rlTask[t].pc \in {"idle", "done"}
    /\ rlStore[k].count < MaxCount
    /\ rlTask' = [rlTask EXCEPT ![t] = [IdleRL EXCEPT !.pc = "incr", !.key = k]]
    /\ UNCHANGED <<rlStore, rlLimit, rlWindowCalls, regVars, callVars, wsVars>>

\* current = await redis.incr(key)
RLIncr(t) ==
    /\ rlTask[t].pc = "incr"
    /\ LET k == rlTask[t].key
       IN \/ /\ rlStore' = RedisIncr(rlStore, k)
             /\ rlWindowCalls' = [rlWindowCalls EXCEPT ![k] = @ + 1]
             /\ rlTask' = [rlTask EXCEPT ![t] =
                   [@ EXCEPT !.current = rlStore'[k].count,
                             !.nth = rlWindowCalls'[k],
                             !.pc = IF FirstInWindow(rlStore'[k].count) THEN "expire"
                                    ELSE IF Exceeds(rlStore'[k].count, rlLimit[k]) THEN "ttl"
                                    ELSE "done",
                             !.result = IF FirstInWindow(rlStore'[k].count)
                                           \/ Exceeds(rlStore'[k].count, rlLimit[k])
                                        THEN None ELSE "ok"]]
          \/ /\ rlTask' = [rlTask EXCEPT ![t] = StoreFault(@)]
             /\ UNCHANGED <<rlStore, rlWindowCalls>>
    /\ UNCHANGED <<rlLimit, regVars, callVars, wsVars>>

\* await redis.expire(key, window_seconds)
RLExpire(t) ==
    /\ rlTask[t].pc = "expire"
    /\ LET k == rlTask[t].key
       IN \/ /\ rlStore' = RedisExpire(rlStore, k, WindowSeconds)
             /\ rlTask' = [rlTask EXCEPT ![t] =
                   [@ EXCEPT !.pc = IF Exceeds(rlTask[t].current, rlLimit[k]) THEN "ttl" ELSE "done",
                             !.result = IF Exceeds(rlTask[t].current, rlLimit[k]) THEN None ELSE "ok"]]
          \/ /\ rlTask' = [rlTask EXCEPT ![t] = StoreFault(@)]
             /\ UNCHANGED rlStore
    /\ UNCHANGED <<rlLimit, rlWindowCalls, regVars, callVars, wsVars>>

\* ttl = await redis.ttl(key); raise rate_limited
RLTtl(t) ==
    /\ rlTask[t].pc = "ttl"
    /\ LET k == rlTask[t].key
       IN \/ rlTask' = [rlTask EXCEPT ![t] =
                   [@ EXCEPT !.pc = "done", !.result = "limited",
                             !.retry = RetryAfter(RedisTtl(rlStore, k), WindowSeconds)]]
          \/ rlTask' = [rlTask EXCEPT ![t] = StoreFault(@)]
    /\ UNCHANGED <<rlStore, rlLimit, rlWindowCalls, regVars, callVars, wsVars>>

\* a second passes in the store
RLTick ==
    /\ rlStore' = RedisTick(rlStore)
    /\ rlStore' # rlStore
    /\ rlWindowCalls' = [k \in RLKeys |-> IF rlStore'[k] = Absent THEN 0 ELSE rlWindowCalls[k]]
    /\ UNCHANGED <<rlLimit, rlTask, regVars, callVars, wsVars>>

NextRL ==
    \/ \E t \in RLTasks, k \in RLKeys : RLCall(t, k)
    \/ \E t \in RLTasks : RLIncr(t)
    \/ \E t \in RLTasks : RLExpire(t)
    \/ \E t \in RLTasks : RLTtl(t)
    \/ RLTick


(***************************************************************************)
(* Call signaling.  A request is handled as one step: initiate_call,       *)
(* answer_call, end_call and get_call_status each read the calls table,    *)
(* commit to it and then read and rewrite the Redis snapshot call:<id>.    *)
(* The snapshot is a JSON object; the model keeps the keys the handlers    *)
(* read: `ids` says whether call_id, caller_id, receiver_id, call_type and *)
(* started_at are there (initiate writes them together), a missing         *)
(* answered_at, ended_at or duration reads as Null.  The calls table gives *)
(* back the values that were committed to it.                              *)
(***************************************************************************)
CallUsers == {"A", "B", "C"}
\* who initiates the call and whom they may call (themselves too); C is a third party
Callers == {"A"}
Receivers == {"A", "B"}
TheCall == "c1"
CallIds == {TheCall}
\* what a client may put in the path: the id of the call, or no UUID at all
CallIdInputs == {TheCall, "not-a-uuid"}

\* the clock stops here
MaxTime == 7

\* _write_call_state's ex=: the lifetime of the snapshot, in seconds
TtlInitiated == 3600
TtlAnswered == 1800
TtlEnded == 300

\* a tick of the clock is the shortest snapshot lifetime
SecondsPerTick == TtlEnded
Ticks(seconds) == seconds \div SecondsPerTick

\* None: a NULL column, a missing JSON key
Null == 0 - 1

NoCall ==
    [exists |-> FALSE, caller |-> None, receiver |-> None, status |-> None,
     answered_at |-> Null, ended_at |-> Null, duration |-> Null]

NoState ==
    [present |-> FALSE, ids |-> FALSE, caller |-> None, receiver |-> None,
     status |-> None, answered_at |-> Null, ended_at |-> Null, duration |-> Null,
     ttl |-> 0]

\* `published`: the channels the handler published on; the handlers of calls.py hold
\* no redis.publish, only SET, SADD and EXPIRE.  `cache`: the Redis command of the
\* handler that raised, "ok" when none did
NoResp ==
    [op |-> None, actor |-> None, call |-> None, code |-> 0, status |-> None,
     duration |-> Null, caller |-> None, receiver |-> None, published |-> {},
     cache |-> "ok"]

\* the Redis commands of the handlers that may raise (a connection lost, a timeout):
\* GET and SET of the snapshot, SADD/EXPIRE of the users' call-index sets
InitiateFaults == {"ok", "write", "index"}
UpdateFaults == {"ok", "read", "write"}

Resp(op, actor, id, code) ==
    [NoResp EXCEPT !.op = op, !.actor = actor, !.call = id, !.code = code]

\* A Redis command raising in a handler is caught nowhere in calls.py: the request
\* is answered 500 by the framework
CacheFailure(op, actor, id, cache) == [Resp(op, actor, id, 500) EXCEPT !.cache = cache]

\* a session whose rollback would undo what the handler had committed
RollbackUndoesCommit(before, committed) == before

\* get_db's `except: await session.rollback()` runs after the handler's own
\* `await db.commit()`: there is nothing left to roll back, the committed row stays
RollbackAfterCommit(before, committed) == committed

\* uuid.UUID(call_id) raises for what is no UUID
IsUuid(id) == id \in CallIds

\* select(Call).where(Call.id == call_uuid) ... scalar_one_or_none()
GetCall(id) == IF IsUuid(id) THEN calls[id] ELSE NoCall

\* _read_call_state: the stored object, or None for a missing key
ReadCallState(id) == IF IsUuid(id) THEN callState[id] ELSE NoState

\* _write_call_state(redis, call_id, data, ttl): SET call:<id> <json> EX ttl
WriteCallState(state, ttl) == [state EXCEPT !.present = TRUE, !.ttl = Ticks(ttl)]

\* the snapshot initiate_call builds from the committed row
InitiateState(call) ==
    [present |-> TRUE, ids |-> TRUE, caller |-> call.caller, receiver |-> call.receiver,
     status |-> "initiated", answered_at |-> call.answered_at,
     ended_at |-> call.ended_at, duration |-> call.duration, ttl |-> 0]

\* the state get_call_status reconstructs from the row on a snapshot miss
ReconstructState(call) ==
    [present |-> TRUE, ids |-> TRUE, caller |-> call.caller, receiver |-> call.receiver,
     status |-> call.status, answered_at |-> call.answered_at,
     ended_at |-> call.ended_at, duration |-> call.duration, ttl |-> 0]

\* an answer_call that lets any participant answer and does not look at the status
AnswerCheckLax(call, actor) ==
    IF ~call.exists THEN 404
    ELSE IF actor \notin {call.caller, call.receiver} THEN 403
    ELSE 200

\* answer_call's checks, in the order of the code
AnswerCheck(call, actor) ==
    IF ~call.exists THEN 404
    ELSE IF call.receiver # actor THEN 403
    ELSE IF call.status = "ended" THEN 409
    ELSE 200

\* an end_call that lets anyone end the call
EndCheckLax(call, actor) == IF ~call.exists THEN 404 ELSE 200

\* end_call's checks
EndCheck(call, actor) ==
    IF ~call.exists THEN 404
    ELSE IF actor \notin {call.caller, call.receiver} THEN 403
    ELSE 200

\* a duration that counts from the start of the clock, not from the answer
DurationSinceEpoch(answered_at, ended_at) == ended_at * SecondsPerTick

\* int((ended_at - answered_at).total_seconds())
DurationSeconds(answered_at, ended_at) == (ended_at - answered_at) * SecondsPerTick

\* an end_call that ends the call again whatever its status
EndedRowAlways(call, t) ==
    [call EXCEPT !.status = "ended", !.ended_at = t,
                 !.duration = IF call.answered_at # Null
                              THEN DurationSeconds(call.answered_at, t) ELSE @]

\* the row end_call commits: `if call.status != "ended": ...`
EndedRow(call, t) ==
    IF call.status # "ended"
    THEN [call EXCEPT !.status = "ended", !.ended_at = t,
                      !.duration = IF call.answered_at # Null
                                   THEN DurationSeconds(call.answered_at, t) ELSE @]
    ELSE call

\* the row answer_call commits
AnsweredRow(call, t) == [call EXCEPT !.status = "answered", !.answered_at = t]

\* `state = await _read_call_state(...) or {}` then state.update({...}) of answer_call
AnswerState(state, call) ==
    [(IF state.present THEN state ELSE NoState)
        EXCEPT !.status = "answered", !.answered_at = call.answered_at]

\* the same of end_call
EndState(state, call) ==
    [(IF state.present THEN state ELSE NoState)
        EXCEPT !.status = "ended", !.ended_at = call.ended_at, !.duration = call.duration]

\* the requests that are handled at the same time
Requests == {"r1", "r2"}

IdleReq ==
    [pc |-> "idle", op |-> None, actor |-> None, code |-> 0,
     loaded |-> NoCall, row |-> NoCall, state |-> NoState]

InitCall ==
    /\ now = 0
    /\ calls = [c \in CallIds |-> NoCall]
    /\ callState = [c \in CallIds |-> NoState]
    /\ lastResp = NoResp
    /\ inflight = [r \in Requests |-> IdleReq]

Respond(r) == lastResp' = r

\* POST /initiate by `caller` for `receiver`; `limited`: rate_limit raised 429;
\* `cache`: the Redis command after the commit that raised, "ok" when none did
InitiateCall(caller, receiver, limited, cache) ==
    /\ ~calls[TheCall].exists
    /\ limited => cache = "ok"         \* a refused request reaches no SET
    /\ IF limited
       THEN /\ Respond(Resp("initiate", caller, None, 429))
            /\ UNCHANGED <<now, calls, callState>>
       ELSE LET row == [exists |-> TRUE, caller |-> caller, receiver |-> receiver,
                        status |-> "initiated", answered_at |-> Null,
                        ended_at |-> Null, duration |-> 0]
            IN  /\ calls' = [calls EXCEPT ![TheCall] =
                                IF cache = "ok" THEN row
                                ELSE RollbackAfterCommit(calls[TheCall], row)]
                /\ callState' = IF cache = "write" THEN callState
                                ELSE [callState EXCEPT ![TheCall] =
                                        WriteCallState(InitiateState(row), TtlInitiated)]
                /\ Respond(IF cache = "ok"
                           THEN [Resp("initiate", caller, TheCall, 201)
                                    EXCEPT !.status = "initiated"]
                           ELSE CacheFailure("initiate", caller, TheCall, cache))
                /\ UNCHANGED now

\* POST /{id}/answer by `actor`
AnswerCall(id, actor, limited, cache) ==
    LET call == GetCall(id)
        code == IF limited THEN 429 ELSE IF ~IsUuid(id) THEN 422 ELSE AnswerCheck(call, actor)
    IN  IF code # 200
        THEN /\ cache = "ok"           \* a refused request reaches no GET or SET
             /\ Respond(Resp("answer", actor, id, code))
             /\ UNCHANGED <<now, calls, callState>>
        ELSE LET row == AnsweredRow(call, now)
             IN  /\ calls' = [calls EXCEPT ![id] =
                                IF cache = "ok" THEN row ELSE RollbackAfterCommit(call, row)]
                 /\ callState' = IF cache # "ok" THEN callState
                                 ELSE [callState EXCEPT ![id] =
                        WriteCallState(AnswerState(ReadCallState(id), row), TtlAnswered)]
                 /\ Respond(IF cache = "ok" THEN Resp("answer", actor, id, 200)
                            ELSE CacheFailure("answer", actor, id, cache))
                 /\ UNCHANGED now

\* POST /{id}/end by `actor`
EndCall(id, actor, limited, cache) ==
    LET call == GetCall(id)
        code == IF limited THEN 429 ELSE IF ~IsUuid(id) THEN 422 ELSE EndCheck(call, actor)
    IN  IF code # 200
        THEN /\ cache = "ok"           \* a refused request reaches no GET or SET
             /\ Respond(Resp("end", actor, id, code))
             /\ UNCHANGED <<now, calls, callState>>
        ELSE LET row == EndedRow(call, now)
             IN  /\ calls' = [calls EXCEPT ![id] =
                                IF cache = "ok" THEN row ELSE RollbackAfterCommit(call, row)]
                 /\ callState' = IF cache # "ok" THEN callState
                                 ELSE [callState EXCEPT ![id] =
                        WriteCallState(EndState(ReadCallState(id), row), TtlEnded)]
                 /\ Respond(IF cache = "ok"
                            THEN [Resp("end", actor, id, 200) EXCEPT !.duration = row.duration]
                            ELSE CacheFailure("end", actor, id, cache))
                 /\ UNCHANGED now

\* what get_call_status answers from `state`: a KeyError on state["caller_id"] is a 500
StatusFrom(state, id, actor) ==
    IF ~state.ids THEN Resp("status", actor, id, 500)
    ELSE IF actor \notin {state.caller, state.receiver} THEN Resp("status", actor, id, 403)
    ELSE [Resp("status", actor, id, 200)
             EXCEPT !.status = state.status, !.duration = state.duration,
                    !.caller = state.caller, !.receiver = state.receiver]

\* GET /{id} by `actor`: the snapshot when there is one, else the row
GetCallStatus(id, actor, limited) ==
    /\ LET state == ReadCallState(id)
           call == GetCall(id)
       IN  Respond(IF limited THEN Resp("status", actor, id, 429)
                   ELSE IF state.present THEN StatusFrom(state, id, actor)
                   ELSE IF ~IsUuid(id) THEN Resp("status", actor, id, 422)
                   ELSE IF ~call.exists THEN Resp("status", actor, id, 404)
                   ELSE StatusFrom(ReconstructState(call), id, actor))
    /\ UNCHANGED <<now, calls, callState>>

\* a tick passes: the snapshots' lifetimes count down and a snapshot at its end is gone
CallTick ==
    /\ now < MaxTime
    /\ now' = now + 1
    /\ callState' = [c \in CallIds |->
                        IF ~callState[c].present THEN callState[c]
                        ELSE IF callState[c].ttl <= 1 THEN NoState
                        ELSE [callState[c] EXCEPT !.ttl = @ - 1]]
    /\ lastResp' = NoResp
    /\ UNCHANGED calls

NextCall ==
    \/ \E a \in Callers, b \in Receivers, l \in BOOLEAN :
           InitiateCall(a, b, l, "ok") /\ UNCHANGED <<regVars, rlVars, wsVars, inflight>>
    \/ \E id \in CallIdInputs, a \in CallUsers, l \in BOOLEAN :
           AnswerCall(id, a, l, "ok") /\ UNCHANGED <<regVars, rlVars, wsVars, inflight>>
    \/ \E id \in CallIdInputs, a \in CallUsers, l \in BOOLEAN :
           EndCall(id, a, l, "ok") /\ UNCHANGED <<regVars, rlVars, wsVars, inflight>>
    \/ \E id \in CallIdInputs, a \in CallUsers, l \in BOOLEAN :
           GetCallStatus(id, a, l) /\ UNCHANGED <<regVars, rlVars, wsVars, inflight>>
    \/ CallTick /\ UNCHANGED <<regVars, rlVars, wsVars, inflight>>

(***************************************************************************)
(* Concurrent requests.  answer_call and end_call are coroutines: between  *)
(* their awaits (the SELECT, the COMMIT, the GET and the SET of the        *)
(* snapshot) the handlers of other requests run.  Each request has its own *)
(* session; no row is locked and no version is checked.                    *)
(***************************************************************************)
\* the UPDATE of a commit: the columns the handler changed on the row it had loaded
\* are written over the row as it is now
Flush(current, loaded, mine) ==
    [f \in DOMAIN current |-> IF mine[f] # loaded[f] THEN mine[f] ELSE current[f]]

\* `await db.execute(select(Call)...)`, then the checks and the assignments up to
\* `await db.commit()`; an end_call that loaded an ended row skips the commit
ReqSelect(r, op, actor) ==
    /\ inflight[r].pc \in {"idle", "done"}
    /\ LET call == GetCall(TheCall)
           code == IF op = "answer" THEN AnswerCheck(call, actor) ELSE EndCheck(call, actor)
           mine == IF code # 200 THEN call
                   ELSE IF op = "answer" THEN AnsweredRow(call, now) ELSE EndedRow(call, now)
       IN  inflight' = [inflight EXCEPT ![r] =
               [IdleReq EXCEPT !.op = op, !.actor = actor, !.code = code,
                               !.loaded = call, !.row = mine,
                               !.pc = IF code # 200 THEN "done"
                                      ELSE IF mine = call THEN "get" ELSE "commit"]]
    /\ UNCHANGED <<now, calls, callState, lastResp, regVars, rlVars, wsVars>>

\* `await db.commit()`
ReqCommit(r) ==
    /\ inflight[r].pc = "commit"
    /\ calls' = [calls EXCEPT ![TheCall] = Flush(@, inflight[r].loaded, inflight[r].row)]
    /\ inflight' = [inflight EXCEPT ![r] = [@ EXCEPT !.pc = "get"]]
    /\ UNCHANGED <<now, callState, lastResp, regVars, rlVars, wsVars>>

\* `state = await _read_call_state(redis, call_id) or {}`
ReqGet(r) ==
    /\ inflight[r].pc = "get"
    /\ inflight' = [inflight EXCEPT ![r] =
                       [@ EXCEPT !.pc = "set", !.state = ReadCallState(TheCall)]]
    /\ UNCHANGED <<now, calls, callState, lastResp, regVars, rlVars, wsVars>>

\* state.update({...}); `await _write_call_state(redis, call_id, state, ttl=...)`
ReqSet(r) ==
    /\ inflight[r].pc = "set"
    /\ callState' = [callState EXCEPT ![TheCall] =
           IF inflight[r].op = "answer"
           THEN WriteCallState(AnswerState(inflight[r].state, inflight[r].row), TtlAnswered)
           ELSE WriteCallState(EndState(inflight[r].state, inflight[r].row), TtlEnded)]
    /\ inflight' = [inflight EXCEPT ![r] = [@ EXCEPT !.pc = "done"]]
    /\ UNCHANGED <<now, calls, lastResp, regVars, rlVars, wsVars>>

\* a call whose users send answer and end requests at the same time, within one
\* second of the clock
NextRace ==
    \/ \E a \in Callers, b \in Receivers :
           InitiateCall(a, b, FALSE, "ok") /\ UNCHANGED <<regVars, rlVars, wsVars, inflight>>
    \/ \E r \in Requests, op \in {"answer", "end"}, a \in CallUsers : ReqSelect(r, op, a)
    \/ \E r \in Requests : ReqCommit(r)
    \/ \E r \in Requests : ReqGet(r)
    \/ \E r \in Requests : ReqSet(r)

\* the same requests on the one call, while Redis may fail any command of a handler
NextCallFaults ==
    \/ \E a \in Callers, b \in Receivers, f \in InitiateFaults :
           InitiateCall(a, b, FALSE, f) /\ UNCHANGED <<regVars, rlVars, wsVars, inflight>>
    \/ \E a \in CallUsers, f \in UpdateFaults :
           AnswerCall(TheCall, a, FALSE, f) /\ UNCHANGED <<regVars, rlVars, wsVars, inflight>>
    \/ \E a \in CallUsers, f \in UpdateFaults :
           EndCall(TheCall, a, FALSE, f) /\ UNCHANGED <<regVars, rlVars, wsVars, inflight>>
    \/ \E a \in CallUsers :
           GetCallStatus(TheCall, a, FALSE) /\ UNCHANGED <<regVars, rlVars, wsVars, inflight>>
    \/ CallTick /\ UNCHANGED <<regVars, rlVars, wsVars, inflight>>


(***************************************************************************)
(* Socket admission, the forwarder and teardown.  websocket_endpoint runs  *)
(* as one task per websocket and creates one _pubsub_forwarder task for    *)
(* it; both are suspended at their awaits, where the other tasks run.      *)
(* Python's asyncio.CancelledError is a BaseException: `except Exception`  *)
(* and contextlib.suppress(Exception) let it pass.                         *)
(***************************************************************************)
WsConns == {"w1", "w2", "w3"}
Jtis == {"j1"}

\* the credentials a client may present: `valid` stands for a good signature and an
\* expiry in the future, `type` for the declared purpose, jti None for no identifier
Tokens == [valid : BOOLEAN, type : {"access", "refresh"}, sub : {"", "A", "B"},
           jti : {None} \cup Jtis]

WS_1008_POLICY_VIOLATION == 1008
WS_1011_INTERNAL_ERROR == 1011

NoToken == [valid |-> FALSE, type |-> None, sub |-> "", jti |-> None]

NewWs ==
    [pc |-> "new", tok |-> NoToken, revoked |-> FALSE, up |-> TRUE, user |-> "",
     accepted |-> FALSE, regAs |-> "", subscribed |-> FALSE, dispatched |-> FALSE,
     close |-> 0, cancelled |-> FALSE, why |-> None]

NoFwd == [st |-> "none", cancelReq |-> FALSE, sub |-> FALSE]

\* a verify_token that does not look at the token's type
VerifyTokenAnyType(tok, token_type) == IF tok.valid THEN tok ELSE NoToken

\* AuthService.verify_token: the payload, or None (NoToken) for a bad signature, an
\* expired token or another type than asked for
VerifyToken(tok, token_type) ==
    IF tok.valid /\ tok.type = token_type THEN tok ELSE NoToken

\* a blacklist check that lets the credential through when the lookup fails
ValidateFailOpen(tok, bl, up) ==
    IF VerifyToken(tok, "access") = NoToken THEN "invalid_token"
    ELSE IF tok.jti # None /\ up /\ tok.jti \in bl THEN "blacklist_check_failed"
    ELSE "ok"

\* _validate_token_and_blacklist: "ok" for the payload, else the RuntimeError raised.
\* `up`: Redis answers the SISMEMBER.  The token_blacklisted error is raised inside
\* the try and leaves it as blacklist_check_failed.
ValidateTokenAndBlacklist(tok, bl, up) ==
    IF VerifyToken(tok, "access") = NoToken THEN "invalid_token"
    ELSE IF tok.jti # None /\ (~up \/ tok.jti \in bl) THEN "blacklist_check_failed"
    ELSE "ok"

\* get_redis: the client is created on the first call and pinged only then
GetRedis(client, up) == IF client = "None" /\ ~up THEN "Redis not available" ELSE "ok"

\* an endpoint that connects before it looks at the outcome of the authentication
AdmissionAlwaysAdmits(client, tok, bl, up) == "ok"

\* lines 303-315 of websocket_endpoint: "ok" when the socket goes on to connect
Admission(client, tok, bl, up) ==
    IF GetRedis(client, up) # "ok" THEN GetRedis(client, up)
    ELSE IF ValidateTokenAndBlacklist(tok, bl, up) # "ok"
         THEN ValidateTokenAndBlacklist(tok, bl, up)
    ELSE IF tok.sub = "" THEN "empty_subject"
    ELSE "ok"

\* the end of the finally block, once `await forwarder_task` is over: a forwarder that
\* ended cancelled raises CancelledError out of suppress(Exception) and
\* manager.disconnect is not reached
TeardownRegistry(reg, w, u, fwdState) ==
    IF fwdState = "cancelled" THEN reg ELSE disconnect(reg, u, w)

\* the sockets of the registry whose endpoint is over: a send to them raises
DeadSockets == {w \in WsConns : endpoint[w].pc \in {"closed", "aborted", "failed"}}

RECURSIVE PruneAll(_, _, _)
\* send_to_user's effect on the registry: every failing websocket is disconnected
PruneAll(reg, u, failing) ==
    IF failing = {} THEN reg
    ELSE LET x == CHOOSE x \in failing : TRUE
         IN  PruneAll(disconnect(reg, u, x), u, failing \ {x})

(***************************************************************************)
(* Server processes.  `manager` and `_redis_client` are module globals:    *)
(* every server process has its own.  w1 and w2 are sockets held by the    *)
(* process P1, w3 is held by another process P2; Redis is shared.          *)
(***************************************************************************)
Proc(w) == IF w = "w3" THEN "P2" ELSE "P1"

\* manager.active_connections of process p
Registry(p) == IF p = "P1" THEN active_connections ELSE peer_connections

\* _redis_client of process p
RedisClient(p) == IF p = "P1" THEN redis_client ELSE peer_redis_client

SetRegistry(p, reg) ==
    IF p = "P1" THEN active_connections' = reg /\ UNCHANGED peer_connections
    ELSE peer_connections' = reg /\ UNCHANGED active_connections

SetRedisClient(p, c) ==
    IF p = "P1" THEN redis_client' = c /\ UNCHANGED peer_redis_client
    ELSE peer_redis_client' = c /\ UNCHANGED redis_client

KeepRegistries == UNCHANGED <<active_connections, peer_connections>>
KeepClients == UNCHANGED <<redis_client, peer_redis_client>>

(***************************************************************************)
(* Inbound frames.  A frame is its `type`, its routing field (receiver_id, *)
(* to, room_id; "" when missing or empty) and the sender the client wrote  *)
(* into it (`from` or `sender_id`; "" when it wrote none).  A handler makes *)
(* at most one manager.send_to_user and at most one redis.publish; an      *)
(* event is its `type` and the `from`/`sender_id` it carries.  A channel   *)
(* ws:<topic>:<suffix> is the pair of its topic and its suffix.            *)
(***************************************************************************)
\* "unknown": a JSON object without a known `type`; "malformed": text that is no
\* JSON; "not_object": JSON that is no object (an array, a string, a number, null)
FrameKinds == {"ping", "typing", "read_receipt", "signal", "party", "message", "unknown",
               "malformed", "not_object"}

\* websocket_endpoint's json.loads(incoming): what fails to parse becomes
\* {"type": "unknown", "raw": incoming}; any JSON value is passed on as it is
ParseFrame(data) ==
    IF data.kind = "malformed" THEN [data EXCEPT !.kind = "unknown", !.target = ""] ELSE data

NoEvent == [type |-> None, from |-> None]
Event(type, from) == [type |-> type, from |-> from]

NoSend == [to |-> None, event |-> NoEvent]
NoPublish == [topic |-> None, suffix |-> None, event |-> NoEvent]

\* what a handler did: it raised, or it made these calls
Returned(send, publish) == [raised |-> FALSE, send |-> send, publish |-> publish]
Raised == [raised |-> TRUE, send |-> NoSend, publish |-> NoPublish]

SendTo(to, event) == [to |-> to, event |-> event]
PublishOn(topic, suffix, event) == [topic |-> topic, suffix |-> suffix, event |-> event]

\* a ping handler that also publishes the pong on the user's notify channel
HandlePingPublishes(user_id) ==
    Returned(SendTo(user_id, Event("pong", None)),
             PublishOn("notify", user_id, Event("pong", None)))

\* kind == "ping"
HandlePing(user_id) == Returned(SendTo(user_id, Event("pong", None)), NoPublish)

\* kind == "typing": manager.broadcast_typing is a send_to_user to the receiver
HandleTyping(user_id, receiver_id) ==
    IF receiver_id = "" THEN Returned(NoSend, NoPublish)
    ELSE Returned(SendTo(receiver_id, Event("typing", user_id)), NoPublish)

\* kind == "read_receipt"
HandleReadReceipt(user_id, receiver_id) ==
    Returned(SendTo(receiver_id, Event("messages_read", user_id)),
             PublishOn("messages:read", receiver_id, Event("messages_read", user_id)))

\* a signal handler that does not look at `to`
HandleSignalUnguarded(user_id, to) ==
    Returned(SendTo(to, Event("signal", user_id)),
             PublishOn("call", to, Event("signal", user_id)))

\* kind == "signal"
HandleSignal(user_id, to) ==
    IF to = "" THEN Returned(NoSend, NoPublish)
    ELSE Returned(SendTo(to, Event("signal", user_id)),
                  PublishOn("call", to, Event("signal", user_id)))

\* kind == "party"
HandleParty(user_id, room_id) ==
    Returned(NoSend, PublishOn("party", room_id, Event("party", user_id)))

\* kind == "message"
HandleMessage(user_id, receiver_id) ==
    Returned(SendTo(receiver_id, Event("new_message", user_id)),
             PublishOn("messages", receiver_id, Event("new_message", user_id)))

\* a handler whose failing publish escapes it
PublishFailureRaises(did) == Raised

\* `try: await redis.publish(...) except Exception: pass`: the handler goes on to
\* its return, after the send_to_user it made
PublishFailure(did) == did

\* a handler that takes the sender of the outbound event from the frame when the
\* client wrote one
HandleClientEventTrustsFrame(user_id, data, limited) ==
    LET sender == IF data.from # "" THEN data.from ELSE user_id
    IN  IF data.kind = "not_object" THEN Raised
        ELSE IF data.kind = "unknown"
             THEN Returned(SendTo(user_id, Event("echo", None)), NoPublish)
        ELSE IF limited THEN Raised
        ELSE IF data.kind = "ping" THEN HandlePing(user_id)
        ELSE IF data.kind = "typing" THEN HandleTyping(sender, data.target)
        ELSE IF data.kind = "read_receipt" THEN HandleReadReceipt(sender, data.target)
        ELSE IF data.kind = "signal" THEN HandleSignal(sender, data.target)
        ELSE IF data.kind = "party" THEN HandleParty(sender, data.target)
        ELSE HandleMessage(sender, data.target)

\* _handle_client_event(user_id, data, redis); `limited`: the type's rate_limit raised.
\* Every event is built with the user_id the endpoint passes, never with a field of
\* the frame.  `kind = data.get("type")` raises AttributeError on a value that is no dict.
HandleClientEvent(user_id, data, limited) ==
    IF data.kind = "not_object" THEN Raised
    ELSE IF data.kind = "unknown" THEN Returned(SendTo(user_id, Event("echo", None)), NoPublish)
    ELSE IF limited THEN Raised
    ELSE IF data.kind = "ping" THEN HandlePing(user_id)
    ELSE IF data.kind = "typing" THEN HandleTyping(user_id, data.target)
    ELSE IF data.kind = "read_receipt" THEN HandleReadReceipt(user_id, data.target)
    ELSE IF data.kind = "signal" THEN HandleSignal(user_id, data.target)
    ELSE IF data.kind = "party" THEN HandleParty(user_id, data.target)
    ELSE HandleMessage(user_id, data.target)

\* the topics _subscribe_user_channels names in full: ws:<topic>:{user_id}
ExactTopics == {"messages", "messages:react", "messages:read", "notify"}

\* a subscription without the catch-all pattern ws:*:{user_id}
MatchingPatternsExactOnly(topic, suffix, user_id) ==
    IF suffix = user_id /\ topic \in ExactTopics THEN 1 ELSE 0

\* how many of user_id's five patterns the channel ws:<topic>:<suffix> matches; Redis
\* sends a subscriber one pmessage for each of them
MatchingPatterns(topic, suffix, user_id) ==
    IF suffix # user_id THEN 0
    ELSE IF topic \in ExactTopics THEN 2 ELSE 1

\* unread messages a subscription may hold
MaxInbox == 2

\* the forwarders whose subscription takes a message in
Reading(w) == fwd[w].sub /\ fwd[w].st \in {"created", "listening"} /\ ~fwd[w].cancelReq

RECURSIVE Repeat(_, _)
Repeat(e, n) == IF n = 0 THEN <<>> ELSE <<e>> \o Repeat(e, n - 1)

\* PUBLISH ws:<topic>:<suffix> event: what every subscription holds afterwards
RedisPublish(boxes, topic, suffix, event) ==
    [w \in WsConns |->
        IF Reading(w)
        THEN boxes[w] \o Repeat(event, MatchingPatterns(topic, suffix, endpoint[w].user))
        ELSE boxes[w]]

\* the publish fits the subscriptions
HasRoom(topic, suffix) ==
    \A w \in WsConns :
        Reading(w) =>
            Len(inbox[w]) + MatchingPatterns(topic, suffix, endpoint[w].user) <= MaxInbox

\* what the last step put on the wire: the frame handled or the message forwarded
\* (`kind`), by which socket's task, the sockets written to, the channel published on
NoEffect ==
    [by |-> None, kind |-> None, target |-> None, limited |-> FALSE, raised |-> FALSE,
     event |-> NoEvent, sentTo |-> {}, topic |-> None, suffix |-> None, published |-> FALSE,
     pubFailed |-> FALSE, claimed |-> ""]

Quiet == lastEffect' = NoEffect

\* what the socket endpoints do not touch
wsOther == <<connState, connUser, sendTask, rlVars, callVars, wire>>

InitWS ==
    /\ endpoint = [w \in WsConns |-> NewWs]
    /\ fwd = [w \in WsConns |-> NoFwd]
    /\ redis_client = "None"
    /\ peer_redis_client = "None"
    /\ peer_connections = <<>>
    /\ blacklist = {}
    /\ inbox = [w \in WsConns |-> <<>>]
    /\ lastEffect = NoEffect
    /\ wire = [stage |-> "idle", source |-> None, event |-> [t |-> "null"], text |-> <<>>,
               raw |-> <<>>, payload |-> [t |-> "null"]]

\* a token identifier is put in the revocation set (by whoever invalidates tokens)
Revoke(j) ==
    /\ j \notin blacklist
    /\ blacklist' = blacklist \cup {j}
    /\ Quiet /\ KeepRegistries /\ KeepClients
    /\ UNCHANGED <<endpoint, fwd, inbox, wsOther>>

\* websocket_endpoint up to manager.connect: get_redis, the token and blacklist check,
\* the subject; then close(1008), or accept and register
WSAdmit(w, tok, up) ==
    /\ endpoint[w].pc = "new"
    /\ SetRedisClient(Proc(w), "client")
    /\ LET outcome == Admission(RedisClient(Proc(w)), tok, blacklist, up)
           seen == [endpoint[w] EXCEPT !.tok = tok, !.up = up, !.why = outcome,
                                 !.revoked = (tok.jti \in blacklist)]
       IN  IF outcome # "ok"
           THEN /\ endpoint' = [endpoint EXCEPT ![w] = [seen EXCEPT !.pc = "refused",
                                                      !.close = WS_1008_POLICY_VIOLATION]]
                /\ KeepRegistries
           ELSE /\ endpoint' = [endpoint EXCEPT ![w] =
                            [seen EXCEPT !.pc = "connected", !.user = tok.sub,
                                         !.accepted = TRUE, !.regAs = tok.sub]]
                /\ SetRegistry(Proc(w), connect(Registry(Proc(w)), tok.sub, w))
    /\ Quiet
    /\ UNCHANGED <<fwd, blacklist, inbox, wsOther>>

\* _subscribe_user_channels, then create_task(_pubsub_forwarder(...)); a failing
\* psubscribe closes with 1011 and disconnects
WSSubscribe(w, up) ==
    /\ endpoint[w].pc = "connected"
    /\ IF up
       THEN /\ endpoint' = [endpoint EXCEPT ![w] = [@ EXCEPT !.pc = "loop", !.subscribed = TRUE]]
            /\ fwd' = [fwd EXCEPT ![w] = [st |-> "created", cancelReq |-> FALSE, sub |-> TRUE]]
            /\ KeepRegistries
       ELSE /\ endpoint' = [endpoint EXCEPT ![w] = [@ EXCEPT !.pc = "failed",
                                                         !.close = WS_1011_INTERNAL_ERROR]]
            /\ SetRegistry(Proc(w), disconnect(Registry(Proc(w)), endpoint[w].user, w))
            /\ UNCHANGED fwd
    /\ Quiet /\ KeepClients
    /\ UNCHANGED <<blacklist, inbox, wsOther>>

\* forwarder_task.cancel(): a request the task meets at its await; none for a finished task
CancelForwarder(f) ==
    IF f.st \in {"done", "cancelled"} THEN f ELSE [f EXCEPT !.cancelReq = TRUE]

\* one turn of the receive loop: rate_limit("ws:recv"), receive_text, json.loads,
\* _handle_client_event.  `recvLimited`, `limited`: that rate_limit raised
\* rate_limited; `pubOk`: the handler's redis.publish went through.  The RuntimeError
\* of rate_limit is caught by `except Exception` outside the loop: the finally block
\* cancels the forwarder and awaits it.  The loop's first await lets the forwarder
\* task, scheduled before it, start.
WSFrame(w, data, recvLimited, limited, pubOk) ==
    /\ endpoint[w].pc = "loop" /\ fwd[w].st # "created"
    /\ LET user_id == endpoint[w].user
           handled == IF recvLimited THEN Raised
                      ELSE HandleClientEvent(user_id, ParseFrame(data), limited)
           pubFailed == ~handled.raised /\ handled.publish # NoPublish /\ ~pubOk
           did == IF pubFailed THEN PublishFailure(handled) ELSE handled
           reg == Registry(Proc(w))
           conns == IF did.send = NoSend THEN {} ELSE RegGet(reg, did.send.to)
           publishes == did.publish # NoPublish /\ pubOk
           effect == [NoEffect EXCEPT !.by = w, !.kind = data.kind, !.target = data.target,
                                      !.limited = recvLimited
                                         \/ (limited /\ did.raised /\ data.kind # "not_object"),
                                      !.raised = did.raised,
                                      !.pubFailed = pubFailed,
                                      !.claimed = data.from]
       IN  IF did.raised
           THEN /\ pubOk \/ pubFailed        \* a publish fails only where one is made
                /\ endpoint' = [endpoint EXCEPT ![w] = [@ EXCEPT !.pc = "awaiting"]]
                /\ fwd' = [fwd EXCEPT ![w] = CancelForwarder(@)]
                /\ lastEffect' = effect
                /\ KeepRegistries
                /\ UNCHANGED inbox
           ELSE /\ pubOk \/ pubFailed
                /\ publishes => HasRoom(did.publish.topic, did.publish.suffix)
                /\ endpoint' = [endpoint EXCEPT ![w] = [@ EXCEPT !.dispatched = TRUE]]
                /\ SetRegistry(Proc(w),
                       IF did.send = NoSend THEN reg
                       ELSE PruneAll(reg, did.send.to, conns \cap DeadSockets))
                /\ inbox' = IF publishes
                            THEN RedisPublish(inbox, did.publish.topic, did.publish.suffix,
                                              did.publish.event)
                            ELSE inbox
                /\ lastEffect' =
                       [effect EXCEPT !.event = IF did.send # NoSend THEN did.send.event
                                                ELSE did.publish.event,
                                      !.sentTo = conns \ DeadSockets,
                                      !.topic = did.publish.topic,
                                      !.suffix = did.publish.suffix,
                                      !.published = publishes]
                /\ UNCHANGED fwd
    /\ KeepClients
    /\ UNCHANGED <<blacklist, wsOther>>

\* the loop ends on WebSocketDisconnect or on another Exception of the handler: the
\* finally block cancels the forwarder and awaits it
WSLoopEnd(w) ==
    /\ endpoint[w].pc = "loop" /\ fwd[w].st # "created"
    /\ endpoint' = [endpoint EXCEPT ![w] = [@ EXCEPT !.pc = "awaiting"]]
    /\ fwd' = [fwd EXCEPT ![w] = CancelForwarder(@)]
    /\ Quiet /\ KeepRegistries /\ KeepClients
    /\ UNCHANGED <<blacklist, inbox, wsOther>>

\* the endpoint's task is cancelled at an await of the loop: `except CancelledError: pass`
WSLoopCancelled(w) ==
    /\ endpoint[w].pc = "loop" /\ fwd[w].st # "created" /\ ~endpoint[w].cancelled
    /\ endpoint' = [endpoint EXCEPT ![w] = [@ EXCEPT !.pc = "awaiting", !.cancelled = TRUE]]
    /\ fwd' = [fwd EXCEPT ![w] = CancelForwarder(@)]
    /\ Quiet /\ KeepRegistries /\ KeepClients
    /\ UNCHANGED <<blacklist, inbox, wsOther>>

\* `await forwarder_task` returns or raises, then (or not) manager.disconnect
WSAwaitForwarder(w) ==
    /\ endpoint[w].pc = "awaiting"
    /\ fwd[w].st \in {"done", "cancelled"}
    /\ endpoint' = [endpoint EXCEPT ![w] = [@ EXCEPT !.pc = IF fwd[w].st = "cancelled"
                                                THEN "aborted" ELSE "closed"]]
    /\ SetRegistry(Proc(w),
                   TeardownRegistry(Registry(Proc(w)), w, endpoint[w].user, fwd[w].st))
    /\ Quiet /\ KeepClients
    /\ UNCHANGED <<fwd, blacklist, inbox, wsOther>>

\* the endpoint's task is cancelled while it is suspended in `await forwarder_task`:
\* the CancelledError leaves the finally block
WSCancelledAwaiting(w) ==
    /\ endpoint[w].pc = "awaiting" /\ ~endpoint[w].cancelled
    /\ fwd[w].st \notin {"done", "cancelled"}
    /\ endpoint' = [endpoint EXCEPT ![w] = [@ EXCEPT !.pc = "aborted", !.cancelled = TRUE]]
    /\ SetRegistry(Proc(w),
                   TeardownRegistry(Registry(Proc(w)), w, endpoint[w].user, "cancelled"))
    /\ Quiet /\ KeepClients
    /\ UNCHANGED <<fwd, blacklist, inbox, wsOther>>

\* the forwarder task starts: it enters `async for msg in pubsub.listen()`
FwdStart(w) ==
    /\ fwd[w].st = "created"
    /\ fwd' = [fwd EXCEPT ![w] = [@ EXCEPT !.st = "listening"]]
    /\ Quiet /\ KeepRegistries /\ KeepClients
    /\ UNCHANGED <<endpoint, blacklist, inbox, wsOther>>

\* the forwarder reads a message and passes it to manager.send_to_user(user_id,
\* payload), which prunes the sockets of the user whose send raises
FwdDeliver(w) ==
    /\ fwd[w].st = "listening" /\ ~fwd[w].cancelReq
    /\ inbox[w] # <<>>
    /\ LET reg == Registry(Proc(w))
           conns == RegGet(reg, endpoint[w].user)
       IN  /\ SetRegistry(Proc(w), PruneAll(reg, endpoint[w].user, conns \cap DeadSockets))
           /\ lastEffect' = [NoEffect EXCEPT !.by = w, !.kind = "forward",
                                             !.target = endpoint[w].user,
                                             !.event = Head(inbox[w]),
                                             !.sentTo = conns \ DeadSockets]
    /\ inbox' = [inbox EXCEPT ![w] = Tail(@)]
    /\ KeepClients
    /\ UNCHANGED <<endpoint, fwd, blacklist, wsOther>>

\* pubsub.listen() raises (or ends): the forwarder reaches `await pubsub.close()`
FwdError(w) ==
    /\ fwd[w].st = "listening" /\ ~fwd[w].cancelReq
    /\ fwd' = [fwd EXCEPT ![w] = [@ EXCEPT !.st = "closing"]]
    /\ inbox' = [inbox EXCEPT ![w] = <<>>]
    /\ Quiet /\ KeepRegistries /\ KeepClients
    /\ UNCHANGED <<endpoint, blacklist, wsOther>>

\* pubsub.close() is over: the task ends normally
FwdClosed(w) ==
    /\ fwd[w].st = "closing" /\ ~fwd[w].cancelReq
    /\ fwd' = [fwd EXCEPT ![w] = [@ EXCEPT !.st = "done", !.sub = FALSE]]
    /\ Quiet /\ KeepRegistries /\ KeepClients
    /\ UNCHANGED <<endpoint, blacklist, inbox, wsOther>>

\* the cancellation reaches the forwarder at its await: in the loop it is caught
\* (`except CancelledError: pass`) and the finally closes the subscription; in
\* `await pubsub.close()` it leaves suppress(Exception) and the task ends cancelled
FwdCancelDelivered(w) ==
    /\ fwd[w].cancelReq
    /\ fwd' = [fwd EXCEPT ![w] =
                 IF @.st = "closing" THEN [@ EXCEPT !.st = "cancelled", !.cancelReq = FALSE]
                 ELSE [@ EXCEPT !.st = "closing", !.cancelReq = FALSE]]
    /\ inbox' = [inbox EXCEPT ![w] = <<>>]
    /\ Quiet /\ KeepRegistries /\ KeepClients
    /\ UNCHANGED <<endpoint, blacklist, wsOther>>

\* the sockets of the specification of admission and teardown, and the frames they send
ChurnConns == {"w1", "w2"}
ChurnFrames == {[kind |-> "ping", target |-> "", from |-> ""]}

NextWS ==
    \/ \E j \in Jtis : Revoke(j)
    \/ \E w \in ChurnConns, tok \in Tokens, up \in BOOLEAN : WSAdmit(w, tok, up)
    \/ \E w \in ChurnConns, up \in BOOLEAN : WSSubscribe(w, up)
    \/ \E w \in ChurnConns, data \in ChurnFrames, recvLimited, limited \in BOOLEAN :
           WSFrame(w, data, recvLimited, limited, TRUE)
    \/ \E w \in ChurnConns : WSLoopEnd(w)
    \/ \E w \in ChurnConns : WSLoopCancelled(w)
    \/ \E w \in ChurnConns : WSAwaitForwarder(w)
    \/ \E w \in ChurnConns : WSCancelledAwaiting(w)
    \/ \E w \in ChurnConns : FwdStart(w)
    \/ \E w \in ChurnConns : FwdError(w)
    \/ \E w \in ChurnConns : FwdClosed(w)
    \/ \E w \in ChurnConns : FwdCancelDelivered(w)


\* fan-out between processes: w3, held by P2, is a socket of user A and sends the
\* frames; w1 and w2, held by P1, are sockets of user B
FanReceivers == {"w1", "w2"}
\* the sockets whose peer may leave meanwhile
FanLeavers == {"w1", "w2"}
FanToken(w) ==
    [valid |-> TRUE, type |-> "access", sub |-> IF w = "w3" THEN "A" ELSE "B", jti |-> None]
\* the frames w3 sends: every type, with and without a target
FanFrames == [kind : FrameKinds, target : {"", "B"}, from : {""}]
\* the frames that are both sent and published, with a target
PublishedFrames == [kind : {"message", "read_receipt", "signal"}, target : {"B"}, from : {""}]

\* the sockets are admitted and w3 sends frames of every kind and shape; when its
\* handler raised, w3 goes through its teardown
NextFrames ==
    \/ \E w \in WsConns : WSAdmit(w, FanToken(w), TRUE)
    \/ \E w \in WsConns : WSSubscribe(w, TRUE)
    \/ \E w \in WsConns : FwdStart(w)
    \/ \E data \in FanFrames : WSFrame("w3", data, FALSE, FALSE, TRUE)
    \/ \E w \in WsConns : FwdDeliver(w)
    \/ FwdCancelDelivered("w3")
    \/ FwdClosed("w3")
    \/ WSAwaitForwarder("w3")

\* frames with a routing field, in which the client names no sender, itself (w3 is
\* a socket of A) or somebody else
SpoofFrames ==
    [kind : {"typing", "read_receipt", "signal", "party", "message"}, target : {"B"},
     from : {"", "A", "B"}]

\* w3 sends frames that name a sender of the client's choice
NextSpoof ==
    \/ \E w \in WsConns : WSAdmit(w, FanToken(w), TRUE)
    \/ \E w \in WsConns : WSSubscribe(w, TRUE)
    \/ \E w \in WsConns : FwdStart(w)
    \/ \E data \in SpoofFrames : WSFrame("w3", data, FALSE, FALSE, TRUE)
    \/ \E w \in WsConns : FwdDeliver(w)

\* The accounts of the users table: a row has an id (a UUID) and an email
Accounts == {"A", "B"}
UserId(u) == IF u = "A" THEN "uuid-A" ELSE "uuid-B"
Email(u) == IF u = "A" THEN "a@noctis" ELSE "b@noctis"

\* login: create_access_token({"sub": user.email})
LoginToken(u) == [valid |-> TRUE, type |-> "access", sub |-> Email(u), jti |-> None]

\* whose client holds the socket
Owner(w) == IF w = "w3" THEN "A" ELSE "B"

\* the channels of the REST message routes: send_message publishes on ws:messages:,
\* react_to_message on ws:messages:react:, mark_message_read on ws:messages:read:
RestTopics == {"messages", "messages:react", "messages:read"}

\* The publish of send_message, react_to_message (for the message's receiver r) and
\* mark_message_read (for its sender r): PUBLISH ws:<topic>:<str(r.id)> <message id>,
\* in a try/except that logs a failure.  The payload is the bare id: the forwarder
\* cannot decode it and forwards it wrapped as an `event`.
RestPublish(topic, r, pubOk) ==
    /\ pubOk => HasRoom(topic, UserId(r))
    /\ inbox' = IF pubOk THEN RedisPublish(inbox, topic, UserId(r), Event("event", None))
                ELSE inbox
    /\ lastEffect' = [NoEffect EXCEPT !.kind = "rest", !.target = r,
                                      !.event = Event("event", None),
                                      !.topic = topic, !.suffix = UserId(r),
                                      !.published = pubOk, !.pubFailed = ~pubOk]
    /\ KeepRegistries /\ KeepClients
    /\ UNCHANGED <<endpoint, fwd, blacklist, wsOther>>

\* a message frame addressed with the name the receiver's sockets are registered under
AddressedFrames == {[kind |-> "message", target |-> Email("B"), from |-> ""]}

\* the clients log in and open their sockets with the token of the login; the REST
\* routes publish for both users, and w3 sends a frame to B
NextRest ==
    \/ \E w \in WsConns : WSAdmit(w, LoginToken(Owner(w)), TRUE)
    \/ \E w \in WsConns : WSSubscribe(w, TRUE)
    \/ \E w \in WsConns : FwdStart(w)
    \/ \E topic \in RestTopics, r \in Accounts, pubOk \in BOOLEAN : RestPublish(topic, r, pubOk)
    \/ \E data \in AddressedFrames : WSFrame("w3", data, FALSE, FALSE, TRUE)
    \/ \E w \in WsConns : FwdDeliver(w)

\* the two devices of user B, held by one process
PubFailConns == {"w1", "w2"}
\* the frames whose handler publishes, with and without a target
PublishingFrames ==
    [kind : {"read_receipt", "signal", "party", "message"}, target : {"", "B"}, from : {""}]

\* w1 sends the frames whose handler publishes, to its own user, while redis.publish
\* may raise
NextPubFail ==
    \/ \E w \in PubFailConns : WSAdmit(w, FanToken(w), TRUE)
    \/ \E w \in PubFailConns : WSSubscribe(w, TRUE)
    \/ \E w \in PubFailConns : FwdStart(w)
    \/ \E data \in PublishingFrames, pubOk \in BOOLEAN : WSFrame("w1", data, FALSE, FALSE, pubOk)
    \/ \E w \in PubFailConns : FwdDeliver(w)

\* w3 sends the published frames while the peer of w2 may leave
NextFan ==
    \/ \E w \in WsConns : WSAdmit(w, FanToken(w), TRUE)
    \/ \E w \in WsConns : WSSubscribe(w, TRUE)
    \/ \E w \in WsConns : FwdStart(w)
    \/ \E data \in PublishedFrames : WSFrame("w3", data, FALSE, FALSE, TRUE)
    \/ \E w \in WsConns : FwdDeliver(w)
    \/ \E w \in FanLeavers : WSLoopEnd(w)
    \/ \E w \in FanLeavers : FwdCancelDelivered(w)
    \/ \E w \in FanLeavers : FwdClosed(w)
    \/ \E w \in FanLeavers : WSAwaitForwarder(w)


(***************************************************************************)
(* The JSON codec on the pub/sub path.  A handler serializes the event it  *)
(* built with json.dumps(event, separators=(",", ":")) and publishes the   *)
(* text; the forwarder of a process decodes what it receives with          *)
(* json.loads and hands the result to send_to_user, and wraps what does    *)
(* not decode.                                                             *)
(*                                                                         *)
(* A Python value is a tagged record.  A str and a text are sequences of   *)
(* symbols: the quotation mark, the backslash, the space, the punctuation  *)
(* of JSON, the digits, and words (a word stands for a run of characters   *)
(* that JSON writes as they are).  A dict keeps its keys in insertion      *)
(* order, as Python does.  Floats are not modelled.                        *)
(***************************************************************************)
Q == "\""

BS == "\\"

EndOfText == ""

DigitSym == <<"0", "1", "2", "3", "4", "5", "6", "7", "8", "9">>

DigitSet == {DigitSym[n] : n \in DOMAIN DigitSym}

DigitVal(c) == (CHOOSE n \in DOMAIN DigitSym : DigitSym[n] = c) - 1

JNull == [t |-> "null"]

JBool(b) == [t |-> "bool", b |-> b]

JInt(n) == [t |-> "int", n |-> n]

JStr(s) == [t |-> "str", s |-> s]

JList(items) == [t |-> "list", items |-> items]

JObj(keys, vals) == [t |-> "dict", keys |-> keys, vals |-> vals]

\* dict.get(key): the value under the key, None when the key is absent
Get(d, key) ==
    IF \E n \in DOMAIN d.keys : d.keys[n] = key
    THEN d.vals[CHOOSE n \in DOMAIN d.keys : d.keys[n] = key]
    ELSE JNull

\* d[key] = value: a key that is there keeps its place
SetItem(keys, vals, key, value) ==
    IF \E n \in DOMAIN keys : keys[n] = key
    THEN [keys |-> keys,
          vals |-> [vals EXCEPT ![CHOOSE n \in DOMAIN keys : keys[n] = key] = value]]
    ELSE [keys |-> Append(keys, key), vals |-> Append(vals, value)]

\* ---- json.dumps(value, separators=(",", ":"))
RECURSIVE Digits(_)
Digits(n) ==
    IF n < 0 THEN <<"-">> \o Digits(0 - n)
    ELSE IF n < 10 THEN <<DigitSym[n + 1]>>
    ELSE Digits(n \div 10) \o <<DigitSym[(n % 10) + 1]>>

\* a character of a str written without its escape
EscapeCharPlain(c) == <<c>>

\* a character of a str as it is written between the quotation marks
EscapeChar(c) == IF c \in {Q, BS} THEN <<BS, c>> ELSE <<c>>

RECURSIVE Escape(_)
Escape(s) == IF s = <<>> THEN <<>> ELSE EscapeChar(Head(s)) \o Escape(Tail(s))

DumpStr(s) == <<Q>> \o Escape(s) \o <<Q>>

RECURSIVE Dumps(_), DumpItems(_, _), DumpMembers(_, _, _)
Dumps(v) ==
    CASE v.t = "null" -> <<"null">>
      [] v.t = "bool" -> IF v.b THEN <<"true">> ELSE <<"false">>
      [] v.t = "int"  -> Digits(v.n)
      [] v.t = "str"  -> DumpStr(v.s)
      [] v.t = "list" -> <<"[">> \o DumpItems(v.items, 1) \o <<"]">>
      [] v.t = "dict" -> <<"{">> \o DumpMembers(v.keys, v.vals, 1) \o <<"}">>

DumpItems(items, n) ==
    IF n > Len(items) THEN <<>>
    ELSE (IF n > 1 THEN <<",">> ELSE <<>>) \o Dumps(items[n]) \o DumpItems(items, n + 1)

DumpMembers(keys, vals, n) ==
    IF n > Len(keys) THEN <<>>
    ELSE (IF n > 1 THEN <<",">> ELSE <<>>)
         \o DumpStr(keys[n]) \o <<":">> \o Dumps(vals[n])
         \o DumpMembers(keys, vals, n + 1)

\* ---- json.loads(text): a parse gives [ok, v, i], i the place after the value
Fail == [ok |-> FALSE, v |-> JNull, i |-> 0]

Ok(v, i) == [ok |-> TRUE, v |-> v, i |-> i]

At(text, i) == IF i <= Len(text) THEN text[i] ELSE EndOfText

RECURSIVE SkipWs(_, _)
SkipWs(text, i) == IF At(text, i) = " " THEN SkipWs(text, i + 1) ELSE i

\* the rest of a string whose opening quotation mark has been read
RECURSIVE ParseString(_, _, _)
ParseString(text, i, acc) ==
    LET c == At(text, i)
    IN  IF c = EndOfText THEN Fail
        ELSE IF c = Q THEN Ok(JStr(acc), i + 1)
        ELSE IF c = BS
             THEN IF At(text, i + 1) \in {Q, BS}
                  THEN ParseString(text, i + 2, Append(acc, At(text, i + 1)))
                  ELSE Fail
        ELSE ParseString(text, i + 1, Append(acc, c))

RECURSIVE ParseDigits(_, _, _)
ParseDigits(text, i, n) ==
    IF At(text, i) \in DigitSet
    THEN ParseDigits(text, i + 1, n * 10 + DigitVal(At(text, i)))
    ELSE [n |-> n, i |-> i]

\* "-"? ("0" | [1-9][0-9]*)
ParseNumber(text, i) ==
    LET neg == At(text, i) = "-"
        j == IF neg THEN i + 1 ELSE i
    IN  IF At(text, j) \notin DigitSet THEN Fail
        ELSE IF At(text, j) = "0" THEN Ok(JInt(0), j + 1)
        ELSE LET r == ParseDigits(text, j, 0)
             IN  Ok(JInt(IF neg THEN 0 - r.n ELSE r.n), r.i)

RECURSIVE ParseValue(_, _), ParseItems(_, _, _, _), ParseMembers(_, _, _, _, _)
ParseValue(text, i0) ==
    LET i == SkipWs(text, i0)
        c == At(text, i)
    IN  CASE c = Q -> ParseString(text, i + 1, <<>>)
          [] c = "{" -> ParseMembers(text, i + 1, <<>>, <<>>, TRUE)
          [] c = "[" -> ParseItems(text, i + 1, <<>>, TRUE)
          [] c = "null" -> Ok(JNull, i + 1)
          [] c = "true" -> Ok(JBool(TRUE), i + 1)
          [] c = "false" -> Ok(JBool(FALSE), i + 1)
          [] c \in DigitSet \cup {"-"} -> ParseNumber(text, i)
          [] OTHER -> Fail

ParseItems(text, i0, acc, first) ==
    LET i == SkipWs(text, i0)
    IN  IF first /\ At(text, i) = "]" THEN Ok(JList(acc), i + 1)
        ELSE LET r == ParseValue(text, i)
                 j == SkipWs(text, r.i)
             IN  IF ~r.ok THEN Fail
                 ELSE IF At(text, j) = "," THEN ParseItems(text, j + 1, Append(acc, r.v), FALSE)
                 ELSE IF At(text, j) = "]" THEN Ok(JList(Append(acc, r.v)), j + 1)
                 ELSE Fail

ParseMembers(text, i0, keys, vals, first) ==
    LET i == SkipWs(text, i0)
    IN  IF first /\ At(text, i) = "}" THEN Ok(JObj(keys, vals), i + 1)
        ELSE IF At(text, i) # Q THEN Fail
        ELSE LET k == ParseString(text, i + 1, <<>>)
                 j == SkipWs(text, k.i)
                 r == ParseValue(text, j + 1)
                 o == SetItem(keys, vals, k.v.s, r.v)
                 e == SkipWs(text, r.i)
             IN  IF ~k.ok \/ At(text, j) # ":" THEN Fail
                 ELSE IF ~r.ok THEN Fail
                 ELSE IF At(text, e) = "," THEN ParseMembers(text, e + 1, o.keys, o.vals, FALSE)
                 ELSE IF At(text, e) = "}" THEN Ok(JObj(o.keys, o.vals), e + 1)
                 ELSE Fail

\* one value and nothing but white space after it, else an exception
Loads(text) ==
    LET r == ParseValue(text, 1)
    IN  IF r.ok /\ SkipWs(text, r.i) > Len(text) THEN r ELSE Fail

\* `payload = {"type": "event", "data": raw}`
WrapRaw(raw) == JObj(<< <<"type">>, <<"data">> >>, <<JStr(<<"event">>), JStr(raw)>>)

\* the forwarder's `try: payload = json.loads(raw) ... except Exception: payload = {...}`
DecodePayload(raw) == IF Loads(raw).ok THEN Loads(raw).v ELSE WrapRaw(raw)

\* the `signal` record the handler of a signal frame builds from the frame
SignalEvent(user_id, data) ==
    JObj(<< <<"type">>, <<"from">>, <<"call_id">>, <<"signal_type">>, <<"payload">> >>,
         <<JStr(<<"signal">>), JStr(user_id), Get(data, <<"call_id">>),
           Get(data, <<"signal_type">>), Get(data, <<"payload">>)>>)

\* ---- the frames and the texts the path is run with
NoKey == [t |-> "absent"]

\* the dict of the pairs whose value is there
RECURSIVE DictOf(_, _)
DictOf(keys, vals) ==
    IF keys = <<>> THEN JObj(<<>>, <<>>)
    ELSE LET rest == DictOf(Tail(keys), Tail(vals))
         IN  IF Head(vals) = NoKey THEN rest
             ELSE JObj(<<Head(keys)>> \o rest.keys, <<Head(vals)>> \o rest.vals)

SomeStrs == {<<>>, <<"offer">>, <<"a", Q, "b">>, <<BS, "n">>, <<"null">>, <<"7">>,
             <<"{", Q, "x", Q, ":", "1", "}">>, <<"a", " ", "b", BS>>}

SomeInts == {0, 7, 0 - 12, 105}

Scalars == {JNull, JBool(TRUE), JBool(FALSE)} \cup {JInt(n) : n \in SomeInts}
              \cup {JStr(s) : s \in SomeStrs}

Candidate ==
    JObj(<< <<"candidate">>, <<"sdpMLineIndex">>, <<"k", Q>> >>,
         <<JStr(<<"a=", Q, "x", Q, BS>>), JInt(0), JList(<<JNull, JObj(<<>>, <<>>)>>)>>)

SignalPayloads ==
    Scalars \cup {JList(<<>>), JObj(<<>>, <<>>), Candidate,
                  JList(<<JInt(1), JStr(<<Q>>), JList(<<JBool(FALSE)>>)>>),
                  JObj(<< <<"sdp">> >>, <<Candidate>>)}

SignalFrames ==
    {DictOf(<< <<"type">>, <<"to">>, <<"call_id">>, <<"signal_type">>, <<"payload">> >>,
            <<JStr(<<"signal">>), JStr(<<"B">>), c, s, p>>) :
        c \in {NoKey, JStr(<<"c1">>), JInt(7)},
        s \in {NoKey, JStr(<<"offer">>), JStr(<<"a", Q, "b">>)},
        p \in SignalPayloads \cup {NoKey}}

\* texts of other publishers: a bare message id (routes/messages.py), a cut-off
\* object, two values, an open string, nothing, and a text that is JSON
OtherTexts ==
    {<<"3f2a-77">>, <<"7", "-", "1">>, <<"{", Q, "type", Q>>, <<"1", " ", "2">>,
     <<Q, "a">>, <<>>, <<"[", "1", ",", "]">>, <<"{", Q, "a", Q, ":", "1", "}">>}

NoWire ==
    [stage |-> "idle", source |-> None, event |-> JNull, text |-> <<>>,
     raw |-> <<>>, payload |-> JNull]

codecOther ==
    <<regVars, rlVars, callVars, endpoint, fwd, redis_client, blacklist,
      peer_connections, peer_redis_client, inbox, lastEffect>>

\* the signal branch up to `redis.publish(f"ws:call:{to}", json.dumps(signal, ...))`
SignalPublish(user_id, data) ==
    /\ wire.stage = "idle"
    /\ LET signal == SignalEvent(user_id, data)
       IN  wire' = [NoWire EXCEPT !.stage = "published", !.source = "handler",
                                  !.event = signal, !.text = Dumps(signal)]
    /\ UNCHANGED codecOther

\* another publisher puts a text of its own on a channel of the user
OtherPublish(text) ==
    /\ wire.stage = "idle"
    /\ wire' = [NoWire EXCEPT !.stage = "published", !.source = "other", !.text = text]
    /\ UNCHANGED codecOther

\* `async for msg in pubsub.listen()`, `raw = msg.get("data")`
FwdReceive ==
    /\ wire.stage = "published"
    /\ wire' = [wire EXCEPT !.stage = "received", !.raw = wire.text]
    /\ UNCHANGED codecOther

\* the decoding and `await manager.send_to_user(user_id, payload)`
FwdForward ==
    /\ wire.stage = "received"
    /\ wire' = [wire EXCEPT !.stage = "forwarded", !.payload = DecodePayload(wire.raw)]
    /\ UNCHANGED codecOther

NextCodec ==
    \/ \E data \in SignalFrames : SignalPublish(<<"A">>, data)
    \/ \E text \in OtherTexts : OtherPublish(text)
    \/ FwdReceive
    \/ FwdForward

Init == InitReg /\ IdleRLInit /\ InitCall /\ InitWS

SpecReg == Init /\ [][NextReg]_vars

\* as Init, with every limit the limiter may be called with
InitAnyLimit == InitReg /\ InitRL /\ InitCall /\ InitWS

SpecRL == InitAnyLimit /\ [][NextRL]_vars

SpecCall == Init /\ [][NextCall]_vars

SpecCallFaults == Init /\ [][NextCallFaults]_vars

SpecRace == Init /\ [][NextRace]_vars

SpecWS == Init /\ [][NextWS]_vars

SpecFrames == Init /\ [][NextFrames]_vars

SpecPubFail == Init /\ [][NextPubFail]_vars

SpecSpoof == Init /\ [][NextSpoof]_vars

SpecRest == Init /\ [][NextRest]_vars

SpecCodec == Init /\ [][NextCodec]_vars

\* the event loop runs a forwarder that has a message to read
SpecFan == Init /\ [][NextFan]_vars /\ \A w \in WsConns : WF_vars(FwdDeliver(w))

(***************************************************************************)
(* C1. send_to_user(user, event) attempts delivery to every connection     *)
(* registered for the user when it was called; a failing send does not     *)
(* stop the sends to the others and is never raised to the caller; what    *)
(* the call removes from the registry is exactly the failing connections:  *)
(* none of them is still registered under the user, and nothing else was   *)
(* removed by it.                                                          *)
(***************************************************************************)
C1_SendReachesAllAndPrunesOnlyFailed ==
    \A s \in Senders :
        LET t == sendTask[s]
        IN  /\ t.pc # "raised"
            /\ t.removed \subseteq ({t.user} \X t.failed)
            /\ t.delivered \cap t.failed = {}
            /\ t.pc = "done" =>
                  /\ t.attempted = t.snap
                  /\ t.delivered \cup t.failed = t.snap
                  /\ t.failed \cap RegGet(active_connections, t.user) = {}

\* a finished send over two or more connections, one failing and pruned, one delivered
C1_Witness ==
    \E s \in Senders :
        /\ sendTask[s].pc = "done"
        /\ Cardinality(sendTask[s].snap) >= 2
        /\ sendTask[s].failed # {}
        /\ sendTask[s].delivered # {}
        /\ sendTask[s].removed # {}

ByParticipant(op) ==
    /\ lastResp.op = op /\ lastResp.call = TheCall /\ lastResp.code # 429
    /\ calls[TheCall].exists
    /\ lastResp.actor \in {calls[TheCall].caller, calls[TheCall].receiver}

(***************************************************************************)
(* C3. Call lifecycle read-back: a status read by a participant returns    *)
(* the status of the latest completed transition of the call: 'initiated'  *)
(* after initiate, 'answered' after answer, 'ended' after end.  (The       *)
(* handlers fail this once the snapshot has expired before an answer or an *)
(* end: C15.)                                                              *)
(***************************************************************************)
C3_StatusReadsBackLatestTransition ==
    ByParticipant("status") =>
        /\ lastResp.code = 200
        /\ lastResp.status = calls[TheCall].status

(***************************************************************************)
(* C4. answer by a subject other than the call's receiver is rejected with *)
(* Forbidden (403), and answer by the receiver on a call that is already   *)
(* 'ended' is rejected with Conflict (409); a rejected answer leaves the   *)
(* durable record and the snapshot as they were.                           *)
(***************************************************************************)
C4_AnswerRejectedForbiddenOrConflict ==
    [][(/\ lastResp'.op = "answer" /\ lastResp'.call = TheCall /\ lastResp'.code # 429
        /\ calls[TheCall].exists)
       => /\ lastResp'.actor # calls[TheCall].receiver => lastResp'.code = 403
          /\ (lastResp'.actor = calls[TheCall].receiver /\ calls[TheCall].status = "ended")
                => lastResp'.code = 409
          /\ lastResp'.code \in {403, 409} => (calls' = calls /\ callState' = callState)
      ]_vars

\* the receiver's answer on an ended call was refused with Conflict, its snapshot still there
C4_Witness ==
    /\ lastResp.op = "answer" /\ lastResp.code = 409
    /\ lastResp.actor = calls[TheCall].receiver
    /\ calls[TheCall].status = "ended"
    /\ callState[TheCall].present /\ callState[TheCall].status = "ended"

(***************************************************************************)
(* C5. A status read for an existing call by a subject that is neither its *)
(* caller nor its receiver raises Forbidden (403), whatever the snapshot:  *)
(* complete, absent, or rewritten by an answer or an end.  (The handlers   *)
(* fail this on a snapshot rewritten after it had expired: C15.)           *)
(***************************************************************************)
C5_StatusByOutsiderForbidden ==
    (/\ lastResp.op = "status" /\ lastResp.call = TheCall /\ lastResp.code # 429
     /\ calls[TheCall].exists
     /\ lastResp.actor \notin {calls[TheCall].caller, calls[TheCall].receiver})
    => lastResp.code = 403

(***************************************************************************)
(* C6. end is idempotent: an end by a participant on a call that is        *)
(* already 'ended' succeeds (200) when Redis answers its commands (what a  *)
(* Redis failure does to the handlers is C23), returns the duration the    *)
(* durable record holds, and leaves the durable record (status, ended_at,  *)
(* duration) as it was; every successful end returns the duration of the   *)
(* durable record, so a repeated end returns what the first one returned.  *)
(***************************************************************************)
C6_EndIdempotent ==
    [][/\ (/\ lastResp'.op = "end" /\ lastResp'.call = TheCall /\ lastResp'.code # 429
           /\ lastResp'.cache = "ok"
           /\ calls[TheCall].exists /\ calls[TheCall].status = "ended"
           /\ lastResp'.actor \in {calls[TheCall].caller, calls[TheCall].receiver})
          => /\ lastResp'.code = 200
             /\ lastResp'.duration = calls[TheCall].duration
             /\ calls' = calls
       /\ (lastResp'.op = "end" /\ lastResp'.code = 200)
          => lastResp'.duration = calls'[TheCall].duration
      ]_vars

\* an answered call was ended, and a later end has just returned its duration again
C6_Witness ==
    /\ ByParticipant("end") /\ lastResp.code = 200
    /\ calls[TheCall].status = "ended"
    /\ calls[TheCall].answered_at # Null
    /\ calls[TheCall].ended_at > calls[TheCall].answered_at
    /\ calls[TheCall].ended_at < now
    /\ lastResp.duration = DurationSeconds(calls[TheCall].answered_at, calls[TheCall].ended_at)

(***************************************************************************)
(* C7.  Token verification at socket admission rejects a credential whose  *)
(* declared purpose is "refresh" even when its signature and expiry are    *)
(* valid, and rejects a credential whose token identifier is in the        *)
(* revocation set at that moment even though it has not expired: no such   *)
(* attempt gets past the refusal.                                          *)
(***************************************************************************)
C7_RefreshOrRevokedRejected ==
    \A w \in WsConns :
        LET e == endpoint[w]
        IN  (e.pc # "new" /\ (e.tok.type = "refresh" \/ e.revoked))
                => (e.pc = "refused" /\ ~e.accepted /\ e.why # "ok")

\* one attempt with a well-signed, unexpired refresh token and one with a good access
\* token whose identifier was revoked have both been refused, with Redis answering
C7_Witness ==
    \E w, v \in WsConns :
        /\ endpoint[w].pc = "refused" /\ endpoint[w].tok.valid
        /\ endpoint[w].tok.type = "refresh" /\ endpoint[w].tok.sub # ""
        /\ endpoint[w].up /\ ~endpoint[w].revoked
        /\ endpoint[v].pc = "refused" /\ endpoint[v].tok.valid
        /\ endpoint[v].tok.type = "access" /\ endpoint[v].tok.sub # ""
        /\ endpoint[v].up /\ endpoint[v].revoked

(***************************************************************************)
(* C8.  If the revocation-set lookup fails with an infrastructure error    *)
(* (the Redis client exists, the token is a good access token carrying an  *)
(* identifier, Redis does not answer), authentication fails closed: the    *)
(* admission step refuses the connection and does not accept it.           *)
(***************************************************************************)
C8_LookupFailureFailsClosed ==
    [][\A w \in WsConns :
          ( /\ endpoint[w].pc = "new" /\ endpoint'[w].pc # "new"
            /\ redis_client = "client"
            /\ VerifyTokenAnyType(endpoint'[w].tok, "access") # NoToken
            /\ endpoint'[w].tok.type = "access"
            /\ endpoint'[w].tok.jti # None
            /\ ~endpoint'[w].up )
          => ( /\ endpoint'[w].pc = "refused"
               /\ ~endpoint'[w].accepted
               /\ RegPairs(active_connections') = RegPairs(active_connections) )
      ]_vars

\* an otherwise acceptable access token, not revoked, was refused because the lookup failed
C8_Witness ==
    \E w \in WsConns :
        /\ endpoint[w].pc = "refused" /\ endpoint[w].why = "blacklist_check_failed"
        /\ endpoint[w].tok.valid /\ endpoint[w].tok.type = "access"
        /\ endpoint[w].tok.sub # "" /\ endpoint[w].tok.jti # None
        /\ ~endpoint[w].up /\ ~endpoint[w].revoked
        /\ ~endpoint[w].accepted

\* the credential of an attempt fails: invalid, wrong purpose, revoked, revocation
\* check error, or empty subject
CredentialFails(e) ==
    \/ ~e.tok.valid
    \/ e.tok.type # "access"
    \/ e.revoked
    \/ (e.tok.jti # None /\ ~e.up)
    \/ e.tok.sub = ""

(***************************************************************************)
(* C9.  An admission attempt whose credential fails is closed with the     *)
(* policy-violation code without ever being accepted, registered,          *)
(* subscribed or having a frame dispatched; an attempt whose credential    *)
(* succeeds is refused only when the store is unavailable, and otherwise   *)
(* is accepted and registered under the credential's subject.              *)
(***************************************************************************)
C9_AdmissionRefusesOrRegisters ==
    \A w \in WsConns :
        LET e == endpoint[w]
        IN  e.pc # "new" =>
              /\ CredentialFails(e) => e.pc = "refused"
              /\ e.pc = "refused" =>
                    /\ e.close = WS_1008_POLICY_VIOLATION
                    /\ ~e.accepted /\ e.regAs = "" /\ ~e.subscribed /\ ~e.dispatched
                    /\ fwd[w].st = "none"
                    /\ \A u \in Users : w \notin RegGet(active_connections, u)
                    /\ ~CredentialFails(e) => ~e.up
              /\ e.pc # "refused" =>
                    /\ e.accepted /\ e.regAs = e.tok.sub /\ e.user = e.tok.sub
                    /\ e.pc = "connected" => w \in RegGet(active_connections, e.tok.sub)

\* one attempt was refused for an empty subject, another was accepted and is registered
\* under its subject
C9_Witness ==
    \E w, v \in WsConns :
        /\ endpoint[w].pc = "refused" /\ endpoint[w].why = "empty_subject"
        /\ endpoint[w].close = WS_1008_POLICY_VIOLATION
        /\ endpoint[v].pc = "connected" /\ endpoint[v].tok.sub = "A"
        /\ v \in RegGet(active_connections, "A")

\* the endpoint of w is over after its receive loop ran
TornDown(w) == endpoint[w].pc \in {"closed", "aborted"}

(***************************************************************************)
(* C10.  Whenever an admitted socket's receive loop has ended and its      *)
(* endpoint is over, the paired forwarder was cancelled and has exited,    *)
(* and the connection is no longer in the registry: no torn-down           *)
(* connection remains registered.                                          *)
(***************************************************************************)
C10_TornDownNotRegistered ==
    \A w \in WsConns :
        TornDown(w) =>
            /\ fwd[w].st \in {"done", "cancelled"}
            /\ \A u \in Users : w \notin RegGet(active_connections, u)

(***************************************************************************)
(* C19.  If the counting store is unreachable when rate_limit increments   *)
(* the counter or arms its expiry, rate_limit fails open: the call returns *)
(* normally ("ok"), it is not rate limited and raises nothing.             *)
(***************************************************************************)
C19_StoreFaultFailsOpen ==
    \A t \in RLTasks :
        ( /\ rlTask[t].pc = "done" /\ rlTask[t].fault
          /\ ~Exceeds(rlTask[t].current, rlLimit[rlTask[t].key]) )
        => (rlTask[t].result = "ok" /\ rlTask[t].retry = 0)

\* one call returned normally after its INCR failed, another after its EXPIRE failed
C19_Witness ==
    \E t, r \in RLTasks :
        /\ rlTask[t].pc = "done" /\ rlTask[t].fault /\ rlTask[t].current = 0
        /\ rlTask[t].result = "ok"
        /\ rlTask[r].pc = "done" /\ rlTask[r].fault /\ rlTask[r].current = 1
        /\ rlTask[r].result = "ok"

(***************************************************************************)
(* C20.  Whenever the incremented counter exceeds the limit, rate_limit    *)
(* raises RateLimited and the action is never allowed through; this        *)
(* includes the case where the read of the remaining time itself fails.    *)
(***************************************************************************)
C20_OverLimitAlwaysRaises ==
    \A t \in RLTasks :
        (rlTask[t].pc = "done" /\ Exceeds(rlTask[t].current, rlLimit[rlTask[t].key]))
        => (rlTask[t].result = "limited" /\ rlTask[t].retry > 0)

(***************************************************************************)
(* C15.  After any sequence of initiate, answer, end and snapshot expiry,  *)
(* answer and end never leave a snapshot from which status cannot be       *)
(* served, and a status read by the caller or the receiver succeeds and    *)
(* returns the status, caller and receiver of the durable record.          *)
(***************************************************************************)
C15_StatusServedFromSnapshotOrRecord ==
    /\ \A c \in CallIds : callState[c].present => callState[c].ids
    /\ ( /\ lastResp.op = "status" /\ lastResp.code # 429
         /\ IsUuid(lastResp.call) /\ GetCall(lastResp.call).exists
         /\ lastResp.actor \in {GetCall(lastResp.call).caller, GetCall(lastResp.call).receiver} )
       => ( /\ lastResp.code = 200
            /\ lastResp.status = GetCall(lastResp.call).status
            /\ lastResp.caller = GetCall(lastResp.call).caller
            /\ lastResp.receiver = GetCall(lastResp.call).receiver )

(***************************************************************************)
(* C18.  Each successful call action (initiate, answer, end) has updated   *)
(* the durable record, refreshed the snapshot, and published a signaling   *)
(* event on the pub/sub medium for the other participant.                  *)
(***************************************************************************)
C18_CallActionStoresAndPublishes ==
    (lastResp.op \in {"initiate", "answer", "end"} /\ lastResp.code \in {200, 201})
    => ( /\ GetCall(lastResp.call).exists
         /\ ReadCallState(lastResp.call).present
         /\ ReadCallState(lastResp.call).status = GetCall(lastResp.call).status
         /\ lastResp.published # {} )

(***************************************************************************)
(* C11.  A forwarder task that has exited, on whichever path (end of the   *)
(* stream, an error while forwarding, a cancellation at any point), has    *)
(* closed the subscription it was given.                                   *)
(***************************************************************************)
C11_ExitedForwarderClosedSubscription ==
    \A w \in WsConns :
        fwd[w].st \in {"done", "cancelled"} => ~fwd[w].sub

\* the last step handled an inbound frame
FrameHandled == lastEffect.kind \in FrameKinds

\* the frame kinds that carry a routing field
RoutedKinds == {"typing", "read_receipt", "signal", "message", "party"}

\* w is registered under its user in the registry of its process
Registered(w) == w \in RegGet(Registry(Proc(w)), endpoint[w].user)

(***************************************************************************)
(* C12.  A per-event fault on an admitted connection (an exceeded per-type *)
(* or receive rate budget, or a missing or empty routing field) only drops *)
(* that event: nothing is raised out of the loop, the connection stays     *)
(* registered and its receive loop keeps running.                          *)
(***************************************************************************)
C12_EventFaultKeepsConnection ==
    ( /\ FrameHandled
      /\ \/ lastEffect.limited
         \/ (lastEffect.kind \in RoutedKinds /\ lastEffect.target = "") )
    => ( /\ ~lastEffect.raised
         /\ endpoint[lastEffect.by].pc = "loop"
         /\ Registered(lastEffect.by) )

(***************************************************************************)
(* C13.  For every inbound event type that carries a routing field, a      *)
(* frame whose routing field is empty or missing is a no-op: no send to    *)
(* any connection, no publish on any channel, and no error.                *)
(***************************************************************************)
C13_EmptyTargetIsNoOp ==
    (FrameHandled /\ lastEffect.kind \in RoutedKinds /\ lastEffect.target = "")
    => (lastEffect.sentTo = {} /\ ~lastEffect.published /\ ~lastEffect.raised)

(***************************************************************************)
(* C14.  A `signal` frame whose `to` is empty or missing produces no       *)
(* delivery to any connection and no publish on any channel.               *)
(***************************************************************************)
C14_EmptySignalNoDeliveryNoPublish ==
    (FrameHandled /\ lastEffect.kind = "signal" /\ lastEffect.target = "")
    => ( /\ lastEffect.sentTo = {} /\ ~lastEffect.published
         /\ lastEffect.topic = None /\ lastEffect.event = NoEvent )

\* a signal without `to` was handled while other sockets were connected and subscribed
C14_Witness ==
    /\ FrameHandled /\ lastEffect.kind = "signal" /\ lastEffect.target = ""
    /\ lastEffect.by = "w3" /\ ~lastEffect.raised
    /\ \E v \in WsConns : v # "w3" /\ Reading(v) /\ fwd[v].st = "listening" /\ Registered(v)
    /\ \A v \in WsConns : inbox[v] = <<>>

\* the event types of the frames that are both sent and published
FanEvents == {"new_message", "messages_read", "signal"}

\* a frame was handled on another process than v's and its event published for v's
\* user, while v's forwarder is running
PublishedFor(v, type) ==
    /\ FrameHandled /\ lastEffect.published
    /\ lastEffect.event.type = type
    /\ lastEffect.suffix = endpoint[v].user /\ lastEffect.suffix # ""
    /\ Proc(lastEffect.by) # Proc(v)
    /\ Reading(v) /\ fwd[v].st = "listening"

\* v's forwarder has just passed the event to every connection registered for its
\* user on its process
ForwardedBy(v, type) ==
    /\ lastEffect.kind = "forward" /\ lastEffect.by = v
    /\ lastEffect.event.type = type
    /\ lastEffect.sentTo = RegGet(Registry(Proc(v)), endpoint[v].user)

(***************************************************************************)
(* C16.  Cross-process fan-out: when a message, read_receipt or signal     *)
(* frame with a non-empty target is handled on one process and published,  *)
(* and the target has an admitted connection with a running forwarder on   *)
(* another process, then that forwarder eventually delivers the event to   *)
(* every connection registered for the target on its process, unless it    *)
(* is stopped first.                                                       *)
(***************************************************************************)
C16_CrossProcessFanOut ==
    \A v \in FanReceivers : \A type \in FanEvents :
        PublishedFor(v, type) ~> (ForwardedBy(v, type) \/ ~Reading(v))

\* a signal handled on P2 has been forwarded on P1 to both sockets of its target
C16_Witness ==
    /\ ForwardedBy("w1", "signal")
    /\ lastEffect.event.from = "A"
    /\ lastEffect.sentTo = {"w1", "w2"}
    /\ endpoint["w3"].dispatched

(***************************************************************************)
(* C17.  A typing frame with a non-empty receiver_id results in the typing *)
(* indicator being delivered to every currently-connected device of the    *)
(* receiver, those held by another server process included: each of them   *)
(* is written to by the handler or has the indicator on its way through    *)
(* its subscription.                                                       *)
(***************************************************************************)
C17_TypingReachesEveryDevice ==
    (FrameHandled /\ lastEffect.kind = "typing" /\ lastEffect.target # "" /\ ~lastEffect.raised)
    => \A v \in WsConns :
          (endpoint[v].pc = "loop" /\ endpoint[v].user = lastEffect.target /\ Registered(v))
          => \/ v \in lastEffect.sentTo
             \/ \E i \in 1..Len(inbox[v]) : inbox[v][i].type = "typing"

(***************************************************************************)
(* C25. The registry invariant, after any sequence of connect, disconnect  *)
(* and send_to_user: no connection is a member of two users' sets, and no  *)
(* user key maps to an empty set - the user whose last connection is       *)
(* removed has no entry left.                                              *)
(***************************************************************************)
C25_RegistryDisjointAndNoEmptySet ==
    /\ \A u \in DOMAIN active_connections : active_connections[u] # {}
    /\ \A u, v \in DOMAIN active_connections :
           u # v => active_connections[u] \cap active_connections[v] = {}

\* a user's last connection was removed, by a disconnect or by a failed send,
\* while another user is still registered
C25_Witness ==
    /\ \E w \in Conns :
          /\ connUser[w] # ""
          /\ connState[w] # "new"
          /\ connUser[w] \notin DOMAIN active_connections
    /\ \E s \in Senders : sendTask[s].removed # {}
    /\ DOMAIN active_connections # {}

(***************************************************************************)
(* C26. connect, disconnect and send_to_user of independent socket tasks   *)
(* interleave at every await of send_to_user's loop.  Under every such     *)
(* interleaving no operation raises to its caller; a connection leaves the *)
(* registry only in a step that disconnects it or in which a send to it    *)
(* failed; a disconnected connection is in no set of the registry, and     *)
(* only a connection that was never registered before is added.            *)
(***************************************************************************)
C26_InterleavingSafe ==
    /\ [](/\ \A s \in Senders : sendTask[s].pc \in {"idle", "loop", "done"}
          /\ \A w \in Conns : connState[w] = "closed" =>
                \A u \in Users : w \notin RegGet(active_connections, u))
    /\ [][\A w \in Conns, u \in Users :
            /\ (w \in RegGet(active_connections, u)
                  /\ w \notin RegGet(active_connections', u)) =>
                    \/ connState[w] = "open" /\ connState'[w] = "closed"
                    \/ \E s \in Senders :
                          /\ sendTask[s].user = u
                          /\ w \in sendTask'[s].failed \ sendTask[s].failed
            /\ (w \notin RegGet(active_connections, u)
                  /\ w \in RegGet(active_connections', u)) =>
                    connState[w] = "new"]_vars

\* a send loop is between two awaits while a connection of its snapshot has
\* been disconnected and a new connection of the same user has been added
C26_Witness ==
    \E s \in Senders :
        /\ sendTask[s].pc = "loop"
        /\ \E w \in sendTask[s].todo : connState[w] = "closed"
        /\ RegGet(active_connections, sendTask[s].user) \ sendTask[s].snap # {}

\* the three handlers that change a call
CallActions == {"initiate", "answer", "end"}

(***************************************************************************)
(* C23. A failure reading or writing the snapshot, or writing the users'   *)
(* call-index sets, during initiate, answer or end is swallowed: the       *)
(* request still gets its success response (201 for initiate, 200 for      *)
(* answer and end).                                                        *)
(***************************************************************************)
C23_CacheFailureSwallowed ==
    (lastResp.op \in CallActions /\ lastResp.cache # "ok")
        => lastResp.code = (IF lastResp.op = "initiate" THEN 201 ELSE 200)

\* the status a handler commits to the durable record
CommittedStatus(op) ==
    IF op = "initiate" THEN "initiated" ELSE IF op = "answer" THEN "answered" ELSE "ended"

\* how far a call has come
Progress(status) ==
    IF status = "initiated" THEN 1 ELSE IF status = "answered" THEN 2
    ELSE IF status = "ended" THEN 3 ELSE 0

(***************************************************************************)
(* C24. initiate, answer and end commit the durable record before they     *)
(* write the snapshot: the snapshot never shows a transition the durable   *)
(* record does not hold, and when a Redis command of the handler fails,    *)
(* the transition the handler committed stays in the durable record.       *)
(***************************************************************************)
C24_DurableFirstNeverRolledBack ==
    /\ [](\A c \in CallIds : callState[c].present =>
              /\ calls[c].exists
              /\ Progress(callState[c].status) <= Progress(calls[c].status))
    /\ [][(lastResp'.op \in CallActions /\ lastResp'.cache # "ok") =>
              /\ calls'[lastResp'.call].exists
              /\ calls'[lastResp'.call].status = CommittedStatus(lastResp'.op)
              /\ lastResp'.op = "answer" => calls'[lastResp'.call].answered_at = now
              /\ Progress(calls'[lastResp'.call].status)
                    >= Progress(calls[lastResp'.call].status)]_vars

\* an answer whose snapshot write failed: the record is 'answered', the snapshot
\* still says 'initiated'
C24_Witness ==
    /\ lastResp.op = "answer" /\ lastResp.cache = "write"
    /\ calls[TheCall].status = "answered" /\ calls[TheCall].answered_at = now
    /\ callState[TheCall].present /\ callState[TheCall].status = "initiated"

(***************************************************************************)
(* C27. Right after initiate (the call is still 'initiated'), a status     *)
(* read by the caller returns status 'initiated' and no duration (null),   *)
(* served from the snapshot or reconstructed from the durable record.      *)
(***************************************************************************)
C27_StatusAfterInitiateHasNoDuration ==
    (/\ lastResp.op = "status" /\ lastResp.call = TheCall /\ lastResp.code # 429
     /\ calls[TheCall].exists /\ calls[TheCall].status = "initiated"
     /\ lastResp.actor = calls[TheCall].caller)
    => /\ lastResp.code = 200
       /\ lastResp.status = "initiated"
       /\ lastResp.duration = Null

C29_EndByOutsiderForbidden ==
    [][(lastResp'.op = "end" /\ lastResp'.call = TheCall /\ lastResp'.code # 429) =>
          /\ ~calls[TheCall].exists =>
                (lastResp'.code = 404 /\ calls' = calls /\ callState' = callState)
          /\ (/\ calls[TheCall].exists
              /\ lastResp'.actor \notin {calls[TheCall].caller, calls[TheCall].receiver})
                => (lastResp'.code = 403 /\ calls' = calls /\ callState' = callState)
      ]_vars

\* an outsider's end of a call in progress was refused, record and snapshot in place
C29_Witness ==
    /\ lastResp.op = "end" /\ lastResp.code = 403 /\ lastResp.call = TheCall
    /\ calls[TheCall].exists /\ calls[TheCall].status = "answered"
    /\ lastResp.actor \notin {calls[TheCall].caller, calls[TheCall].receiver}
    /\ callState[TheCall].present /\ callState[TheCall].status = "answered"

(***************************************************************************)
(* C21. Once the window of a counter has elapsed, the next rate_limit call *)
(* counts as call 1 again, so a subject that was rate-limited is allowed   *)
(* again later and is never blocked for good.  A counter elapses only      *)
(* through its expiry: whenever a call has been refused, its counter is    *)
(* gone already, or runs towards its expiry, or the call that created it   *)
(* is about to set the expiry.                                             *)
(***************************************************************************)
C21_LimitedSubjectAllowedAgain ==
    \A t \in RLTasks :
        (rlTask[t].pc = "done" /\ rlTask[t].result = "limited") =>
            LET k == rlTask[t].key
            IN  \/ rlStore[k] = Absent
                \/ rlStore[k].ttl > 0
                \/ \E u \in RLTasks : rlTask[u].key = k /\ rlTask[u].pc = "expire"

\* the frame types whose handler publishes
PublishingKinds == {"read_receipt", "signal", "party", "message"}

(***************************************************************************)
(* C22. A redis.publish that fails inside the read_receipt, signal, party  *)
(* or message handler is not raised to the receive loop: the handler       *)
(* returns normally, the delivery it made through the registry stands      *)
(* (every live connection registered for the target got the event), and    *)
(* the sender's connection stays registered with its loop running.         *)
(***************************************************************************)
C22_PublishFailureSwallowed ==
    (FrameHandled /\ lastEffect.pubFailed) =>
        /\ lastEffect.kind \in PublishingKinds
        /\ ~lastEffect.raised /\ ~lastEffect.published
        /\ endpoint[lastEffect.by].pc = "loop"
        /\ endpoint[lastEffect.by].dispatched
        /\ Registered(lastEffect.by)
        /\ lastEffect.kind # "party" =>
              /\ lastEffect.event.type \in FanEvents
              /\ lastEffect.sentTo =
                    RegGet(Registry(Proc(lastEffect.by)), lastEffect.target)

\* the publish of a message frame failed after the event went to both devices of
\* the receiver
C22_Witness ==
    /\ FrameHandled /\ lastEffect.pubFailed /\ lastEffect.kind = "message"
    /\ lastEffect.target = "B" /\ lastEffect.sentTo = {"w1", "w2"}
    /\ endpoint[lastEffect.by].pc = "loop"

\* the six event types _handle_client_event knows
KnownKinds == {"ping", "typing", "read_receipt", "signal", "party", "message"}

(***************************************************************************)
(* C30. Every inbound frame that is none of the six known types - text     *)
(* that is no JSON, and JSON without a known `type` - is handled as an     *)
(* unknown event: it is echoed to the sender as an `echo` event and the    *)
(* connection stays open.                                                  *)
(***************************************************************************)
C30_UnknownFrameEchoed ==
    (FrameHandled /\ lastEffect.kind \notin KnownKinds /\ ~lastEffect.limited) =>
        /\ ~lastEffect.raised
        /\ lastEffect.event = Event("echo", None)
        /\ lastEffect.by \in lastEffect.sentTo
        /\ endpoint[lastEffect.by].pc = "loop"
        /\ Registered(lastEffect.by)

C32_GetRedisRaisesWhileUnreachable ==
    \A w \in WsConns :
        (endpoint[w].pc # "new" /\ ~endpoint[w].up) =>
            endpoint[w].why = "Redis not available"

(***************************************************************************)
(* C36. Every counter key that is in the store once the rate_limit calls   *)
(* on it have finished carries an expiry: apart from the moment between    *)
(* the INCR that created the key and the EXPIRE of the same call, no       *)
(* counter exists without a TTL - also when the EXPIRE fails.              *)
(***************************************************************************)
C36_CounterAlwaysExpires ==
    \A k \in RLKeys :
        (rlStore[k] # Absent
            /\ ~\E t \in RLTasks : rlTask[t].key = k /\ rlTask[t].pc = "expire")
        => rlStore[k].ttl # NoTtl

(***************************************************************************)
(* C37. From its admission until its teardown runs, a connection whose     *)
(* receive loop is active is a member of its user's registry set: nothing, *)
(* and in particular not the pruning after a failed send in send_to_user,  *)
(* removes a connection whose handler is still receiving.                  *)
(***************************************************************************)
C37_ActiveConnectionRegistered ==
    \A w \in Conns :
        connState[w] = "open" => w \in RegGet(active_connections, connUser[w])

(***************************************************************************)
(* C38. The forwarder paired with an admitted connection stays subscribed  *)
(* and consuming for as long as the connection's receive loop is active:   *)
(* it does not end before the teardown cancels it, and a connection is     *)
(* never left in its receive loop with a forwarder that has stopped.       *)
(***************************************************************************)
C38_ForwarderLivesWithLoop ==
    \A w \in WsConns :
        endpoint[w].pc = "loop" => (fwd[w].st \in {"created", "listening"} /\ fwd[w].sub)

\* the event types that name their sender (typing as sender_id, the others as from)
SenderEvents == {"typing", "messages_read", "signal", "party", "new_message"}

(***************************************************************************)
(* C39. Every outbound event a socket handler builds names as its sender   *)
(* the authenticated subject of the connection the frame came in on (the   *)
(* `sub` of its credential), whatever the frame says: what the handler     *)
(* does for two frames that differ only in the sender the client wrote is  *)
(* the same, and every event sent, published or waiting in a subscription  *)
(* carries the subject of the connection that sent its frame.              *)
(***************************************************************************)
C39_EventsCarryAuthenticatedSubject ==
    /\ \A u \in Users, d \in SpoofFrames, f \in {"", "A", "B"} :
          HandleClientEvent(u, [d EXCEPT !.from = f], FALSE) = HandleClientEvent(u, d, FALSE)
    /\ (FrameHandled /\ ~lastEffect.raised /\ lastEffect.event.type \in SenderEvents)
          => lastEffect.event.from = endpoint[lastEffect.by].tok.sub
    /\ \A w \in WsConns : \A i \in 1..Len(inbox[w]) :
          inbox[w][i].type \in SenderEvents =>
              \E v \in WsConns : endpoint[v].dispatched /\ endpoint[v].tok.sub = inbox[w][i].from

\* a signal frame of A's socket that claims to come from B went out, sent and
\* published, as coming from A
C39_Witness ==
    /\ FrameHandled /\ lastEffect.kind = "signal" /\ lastEffect.by = "w3"
    /\ lastEffect.claimed = "B" /\ endpoint["w3"].tok.sub = "A"
    /\ lastEffect.event = Event("signal", "A")
    /\ lastEffect.published
    /\ \E w \in WsConns : inbox[w] # <<>>

(***************************************************************************)
(* C40. A socket is registered and subscribed under the subject of its     *)
(* credential, and that is the identity the REST message routes scope      *)
(* their publishes with: an event that send_message, react_to_message or   *)
(* mark_message_read publishes for user R is matched by the subscription   *)
(* of every socket R opened with the token of R's login, and waits there   *)
(* to be forwarded.                                                        *)
(***************************************************************************)
C40_RestPublishReachesSubscriber ==
    (lastEffect.kind = "rest" /\ lastEffect.published) =>
        \A w \in WsConns :
            (Reading(w) /\ endpoint[w].tok = LoginToken(lastEffect.target)) =>
                \E i \in 1..Len(inbox[w]) : inbox[w][i] = lastEffect.event

(***************************************************************************)
(* C34. 'ended' is terminal in the durable record under every interleaving *)
(* of concurrent answer and end requests on a call: once the status of the *)
(* row is 'ended', no later commit changes the status (never back to       *)
(* 'answered') or answered_at.                                             *)
(***************************************************************************)
C34_EndedIsTerminal ==
    [][\A c \in CallIds :
          (calls[c].exists /\ calls[c].status = "ended") =>
              /\ calls'[c].status = "ended"
              /\ calls'[c].answered_at = calls[c].answered_at
      ]_vars

\* no request is between two of its awaits
NoneInFlight == \A r \in Requests : inflight[r].pc \in {"idle", "done"}

(***************************************************************************)
(* C35. Under every interleaving of concurrent answer and end requests on  *)
(* a call, once all requests in flight have completed the snapshot, when   *)
(* there is one, has the status of the durable record; and a snapshot      *)
(* whose status is 'ended' is never overwritten with 'answered' nor given  *)
(* a longer lifetime.                                                      *)
(***************************************************************************)
C35_SnapshotAgreesWhenQuiet ==
    [][\A c \in CallIds :
          /\ (NoneInFlight' /\ callState'[c].present)
                => callState'[c].status = calls'[c].status
          /\ (callState[c].present /\ callState[c].status = "ended" /\ callState'[c].present)
                => /\ callState'[c].status = "ended"
                   /\ callState'[c].ttl <= callState[c].ttl
      ]_vars

(***************************************************************************)
(* C33. Round trip: the event record a handler built, serialized,          *)
(* published, received by a forwarder and decoded, is structurally equal   *)
(* to the original record when it is passed to send_to_user; a received    *)
(* payload that fails JSON decoding is passed on wrapped as                *)
(* {type: event, data: raw}.                                               *)
(***************************************************************************)
C33_RoundTripOrWrapped ==
    wire.stage = "forwarded" =>
        /\ wire.source = "handler" => wire.payload = wire.event
        /\ ~Loads(wire.raw).ok =>
              /\ wire.payload.t = "dict"
              /\ wire.payload.keys = << <<"type">>, <<"data">> >>
              /\ wire.payload.vals = <<JStr(<<"event">>), JStr(wire.text)>>

\* a forwarded signal whose payload is a nested record with quotation marks and a
\* backslash in a key and in a value
C33_Witness ==
    /\ wire.stage = "forwarded"
    /\ wire.source = "handler"
    /\ Get(wire.event, <<"payload">>) = JObj(<< <<"sdp">> >>, <<Candidate>>)
    /\ Get(wire.payload, <<"payload">>) = Get(wire.event, <<"payload">>)
    /\ Get(wire.payload, <<"from">>) = JStr(<<"A">>)

====
